---- MODULE Spec2Model ----
(***************************************************************************)
(* Knowledge-graph memory store (memory-plugin/server).                    *)
(*                                                                         *)
(* Two stores are modelled:                                                *)
(*   - KnowledgeGraphStore (server.py): the single-project store, with its *)
(*     SessionManager, NodeScorer, Compactor, TokenEstimator and the       *)
(*     maintenance tick of _periodic_save.  Specification: Spec.           *)
(*   - MultiProjectGraphStore (http/store.py) with HTTPSessionManager.     *)
(*     Specification: MSpec.                                               *)
(*                                                                         *)
(* Python dicts are functions with string keys, so that the presence of an *)
(* optional key ("_archived", "_orphaned_ts", "notes", "touches") is part  *)
(* of the state.  A dict of nodes or edges is the sequence of its values   *)
(* in insertion order (the order Python iterates it in).  Every public     *)
(* method runs under the store's RLock, so each is one atomic action.      *)
(* time.time() is the variable now (mnow in the multi-project store): a    *)
(* clock that never runs backwards but may return the same value to two    *)
(* successive readers.  One clock unit is one day.                         *)
(***************************************************************************)
EXTENDS Integers, Sequences, FiniteSets, TLC

VARIABLES now, sessions, issued, nodes, edges, versions, dirty, ops, last,
          disk, running, lock, pc, hist, backups

vars == <<now, sessions, issued, nodes, edges, versions, dirty, ops, last,
          disk, running, lock, pc, hist, backups>>

\* The graph files, the threads of the process, the orphan history and the backup
\* files.  The specifications of the graph operations (Spec, SyncSpec, MSpec)
\* take every public method and the maintenance tick as one step each and leave
\* these as they are.
rest == <<disk, running, lock, pc, hist, backups>>

-----------------------------------------------------------------------------
(* Bounds of the model and configuration (KGConfig) used for checking.      *)

\* Clock values range over 0..MaxTime.
MaxTime == 2
\* Number of successful graph mutations (put, delete, recall) in a run.
MaxOps == 3
\* Mutator calls that succeed in a run that records the outcome of each call.
MaxCalls == 2
\* KGConfig.max_tokens
max_tokens == 30
\* KGConfig.grace_period_days
grace_period_days == 1
\* KGConfig.orphan_grace_days
orphan_grace_days == 1

\* Clock units in 24 * 60 * 60 seconds.
DAY == 1
\* KGConfig.session_ttl = SESSION_TTL_SECONDS = 24 * 60 * 60 seconds
SESSION_TTL_SECONDS == DAY

BASE_NODE_TOKENS == 20
CHARS_PER_TOKEN == 4
TOKENS_PER_EDGE == 15

\* LEVELS = ("user", "project"), in the order the maintenance loop visits them.
LEVELS == <<"user", "project">>
Levels == {LEVELS[i] : i \in 1..Len(LEVELS)}

\* Values clients pass as level, id, rel, session_id and node content.
BadLevels == {"global"}
NodeIds == {"a", "b"}
Rels == {"uses"}
SessionIds == {"s1", "s2"}
\* session_id = None
NoSession == "None"
\* The owner of the store's lock when no thread holds it.
NoThread == "none"
\* (gist, touches, notes) of a put_node call; <<>> stands for None or [].
NodeInputs ==
    { [gist |-> "g", touches |-> <<>>, notes |-> <<>>],
      [gist |-> "a gist of thirty-two characters.", touches |-> <<"f.py">>,
       notes |-> <<"note">>] }

-----------------------------------------------------------------------------
(* Dict helpers.                                                            *)

Range(s) == {s[i] : i \in 1..Len(s)}

\* {}
EmptyDict == [x \in {} |-> x]

\* d with key k set to v (d[k] = v on a Python dict).
DictSet(d, k, v) == (k :> v) @@ d

\* d without key k (del d[k]).
DictDel(d, k) == [x \in (DOMAIN d) \ {k} |-> d[x]]

\* d.get(k, default)
DictGet(d, k, default) == IF k \in DOMAIN d THEN d[k] ELSE default

NodeIdsOf(ns) == {ns[i]["id"] : i \in 1..Len(ns)}

\* Position of the node with this id in the dict's iteration order.
NodePos(ns, id) == CHOOSE i \in 1..Len(ns) : ns[i]["id"] = id

NodeOf(ns, id) == ns[NodePos(ns, id)]

\* nodes.setdefault(node_id, node): an existing entry is kept as it is.
NodesSetDefault(ns, id, node) ==
    IF id \in NodeIdsOf(ns) THEN ns ELSE Append(ns, node)

\* nodes[node_id].update(node): the keys of an existing entry that node lacks stay.
NodesSetUpdate(ns, id, node) ==
    IF id \in NodeIdsOf(ns)
    THEN [ns EXCEPT ![NodePos(ns, id)] = node @@ @]
    ELSE Append(ns, node)

\* nodes[node_id] = node: an existing key keeps its place, a new one goes last.
NodesSet(ns, id, node) ==
    IF id \in NodeIdsOf(ns)
    THEN [ns EXCEPT ![NodePos(ns, id)] = node]
    ELSE Append(ns, node)

\* del nodes[node_id]
NodesDel(ns, id) == SelectSeq(ns, LAMBDA n : n["id"] # id)

EdgeKey(e) == <<e["from"], e["to"], e["rel"]>>

EdgeKeysOf(es) == {EdgeKey(es[i]) : i \in 1..Len(es)}

EdgePos(es, k) == CHOOSE i \in 1..Len(es) : EdgeKey(es[i]) = k

EdgesSet(es, e) ==
    IF EdgeKey(e) \in EdgeKeysOf(es)
    THEN [es EXCEPT ![EdgePos(es, EdgeKey(e))] = e]
    ELSE Append(es, e)

EdgesDel(es, k) == SelectSeq(es, LAMBDA e : EdgeKey(e) # k)

RECURSIVE SumSeq(_)
SumSeq(s) == IF s = <<>> THEN 0 ELSE Head(s) + SumSeq(Tail(s))

-----------------------------------------------------------------------------
(* core/utils.py                                                            *)

is_archived(node) == DictGet(node, "_archived", FALSE)

version_key_node(node_id) == "node:" \o node_id

version_key_edge(from_ref, to_ref, rel) ==
    "edge:" \o from_ref \o "->" \o to_ref \o ":" \o rel

validate_level(level) == level \in Levels

-----------------------------------------------------------------------------
(* core/estimator.py                                                        *)

estimate_node(node) ==
    LET gist_tokens == Len(DictGet(node, "gist", "")) \div CHARS_PER_TOKEN
        notes == DictGet(node, "notes", <<>>)
        notes_tokens == SumSeq([i \in 1..Len(notes) |-> Len(notes[i]) \div CHARS_PER_TOKEN])
    IN  BASE_NODE_TOKENS + gist_tokens + notes_tokens

\* estimate_graph(nodes, edges, include_archived=False)
estimate_graph(ns, es) ==
    SumSeq([i \in 1..Len(ns) |-> IF is_archived(ns[i]) THEN 0 ELSE estimate_node(ns[i])])
        + Len(es) * TOKENS_PER_EDGE

-----------------------------------------------------------------------------
(* KnowledgeGraphStore                                                      *)

\* _bump_version that keeps the ts of an existing record.
bump_version_keep_ts(vs, key, session_id, t) ==
    LET current == DictGet(vs, key, [v |-> 0, ts |-> t])
    IN  DictSet(vs, key, [v |-> current.v + 1, ts |-> current.ts, session |-> session_id])

\* _bump_version: the versions dict of one level after the bump.
bump_version(vs, key, session_id, t) ==
    LET current == DictGet(vs, key, [v |-> 0])
    IN  DictSet(vs, key, [v |-> current.v + 1, ts |-> t, session |-> session_id])

Init ==
    /\ now = 0
    /\ sessions = EmptyDict
    /\ issued = {}
    /\ nodes = [L \in Levels |-> <<>>]
    /\ edges = [L \in Levels |-> <<>>]
    /\ versions = [L \in Levels |-> EmptyDict]
    /\ dirty = [L \in Levels |-> FALSE]
    /\ ops = 0
    /\ last = [op |-> "init"]
    /\ disk = EmptyDict
    /\ running = TRUE
    /\ lock = NoThread
    /\ pc = EmptyDict
    /\ hist = EmptyDict
    /\ backups = EmptyDict

\* time.time() moves on between two calls.
Advance ==
    /\ now < MaxTime
    /\ now' = now + 1
    /\ UNCHANGED <<sessions, issued, nodes, edges, versions, dirty, ops, last>>

\* The node dict put_node builds from its arguments.
NewNode(node_id, in) ==
    LET n0 == [id |-> node_id, gist |-> in.gist]
        n1 == IF in.touches # <<>> THEN DictSet(n0, "touches", in.touches) ELSE n0
    IN  IF in.notes # <<>> THEN DictSet(n1, "notes", in.notes) ELSE n1

\* A mutator called with a level outside LEVELS: validate_level raises KGError.
InvalidLevel(opname, level) ==
    /\ ~validate_level(level)
    /\ opname \in {"put_node", "put_edge", "delete_node", "delete_edge", "recall"}
    /\ UNCHANGED vars

PutNode(level, node_id, in, session_id) ==
    /\ validate_level(level)
    /\ LET node == NewNode(node_id, in)
           action == IF node_id \in NodeIdsOf(nodes[level]) THEN "updated" ELSE "added"
       IN  /\ nodes' = [nodes EXCEPT ![level] = NodesSet(@, node_id, node)]
           /\ versions' = [versions EXCEPT
                  ![level] = bump_version(@, version_key_node(node_id), session_id, now)]
           /\ dirty' = [dirty EXCEPT ![level] = TRUE]
           /\ last' = [op |-> "put_node", level |-> level, id |-> node_id,
                       in |-> in, session |-> session_id, ts |-> now, action |-> action,
                       before |-> IF node_id \in NodeIdsOf(nodes[level])
                                  THEN NodeOf(nodes[level], node_id) ELSE EmptyDict,
                       v0 |-> DictGet(versions[level], version_key_node(node_id),
                                      [v |-> 0]).v]
    /\ ops' = ops + 1
    /\ UNCHANGED <<now, sessions, issued, edges>>

PutEdge(level, from_ref, to_ref, rel, session_id) ==
    /\ validate_level(level)
    /\ LET edge == [from |-> from_ref, to |-> to_ref, rel |-> rel]
           action == IF EdgeKey(edge) \in EdgeKeysOf(edges[level]) THEN "updated" ELSE "added"
       IN  /\ edges' = [edges EXCEPT ![level] = EdgesSet(@, edge)]
           /\ versions' = [versions EXCEPT
                  ![level] = bump_version(@, version_key_edge(from_ref, to_ref, rel),
                                          session_id, now)]
           /\ dirty' = [dirty EXCEPT ![level] = TRUE]
           /\ last' = [op |-> "put_edge", level |-> level, edge |-> edge,
                       session |-> session_id, ts |-> now, action |-> action]
    /\ ops' = ops + 1
    /\ UNCHANGED <<now, sessions, issued, nodes>>

\* _delete_node_internal that leaves the version records of the removed edges.
delete_node_internal_keep_edge_versions(ns, es, vs, node_id) ==
    [nodes |-> NodesDel(ns, node_id),
     edges |-> SelectSeq(es, LAMBDA e : ~(e["from"] = node_id \/ e["to"] = node_id)),
     versions |-> DictDel(vs, version_key_node(node_id))]

\* _delete_node_internal on one level: [nodes, edges, versions] afterwards.
\* The caller has checked that node_id is a key of ns.
delete_node_internal(ns, es, vs, node_id) ==
    LET edges_to_delete ==
            SelectSeq(es, LAMBDA e : e["from"] = node_id \/ e["to"] = node_id)
        gone == {version_key_edge(e["from"], e["to"], e["rel"]) : e \in Range(edges_to_delete)}
                    \cup {version_key_node(node_id)}
    IN  [nodes |-> NodesDel(ns, node_id),
         edges |-> SelectSeq(es, LAMBDA e : ~(e["from"] = node_id \/ e["to"] = node_id)),
         versions |-> [k \in (DOMAIN vs) \ gone |-> vs[k]]]

\* The error delete_node raises, or "none".
delete_node_error(ns, node_id) ==
    IF node_id \notin NodeIdsOf(ns) THEN "node not found" ELSE "none"

DeleteNode(level, node_id) ==
    /\ validate_level(level)
    /\ IF delete_node_error(nodes[level], node_id) # "none"
       THEN UNCHANGED <<nodes, edges, versions, dirty, ops, last>>
       ELSE /\ LET r == delete_node_internal(nodes[level], edges[level],
                                             versions[level], node_id)
               IN  /\ nodes' = [nodes EXCEPT ![level] = r.nodes]
                   /\ edges' = [edges EXCEPT ![level] = r.edges]
                   /\ versions' = [versions EXCEPT ![level] = r.versions]
            /\ dirty' = [dirty EXCEPT ![level] = TRUE]
            /\ ops' = ops + 1
            /\ last' = [op |-> "delete_node", level |-> level, id |-> node_id,
                        edges_removed |->
                            Len(edges[level]) - Len(delete_node_internal(
                                nodes[level], edges[level], versions[level], node_id).edges)]
    /\ UNCHANGED <<now, sessions, issued>>

\* delete_edge that marks the level dirty before it looks for the edge.
DeleteEdgeMarksDirty(level, from_ref, to_ref, rel) ==
    /\ validate_level(level)
    /\ LET edge_key == <<from_ref, to_ref, rel>>
       IN  /\ dirty' = [dirty EXCEPT ![level] = TRUE]
           /\ IF edge_key \notin EdgeKeysOf(edges[level])
              THEN UNCHANGED <<edges, versions, ops, last>>
              ELSE /\ edges' = [edges EXCEPT ![level] = EdgesDel(@, edge_key)]
                   /\ versions' = [versions EXCEPT
                          ![level] = DictDel(@, version_key_edge(from_ref, to_ref, rel))]
                   /\ ops' = ops + 1
                   /\ last' = [op |-> "delete_edge", level |-> level, key |-> edge_key]
    /\ UNCHANGED <<now, sessions, issued, nodes>>

DeleteEdge(level, from_ref, to_ref, rel) ==
    /\ validate_level(level)
    /\ LET edge_key == <<from_ref, to_ref, rel>>
       IN  IF edge_key \notin EdgeKeysOf(edges[level])
           THEN UNCHANGED <<edges, versions, dirty, ops, last>>
           ELSE /\ edges' = [edges EXCEPT ![level] = EdgesDel(@, edge_key)]
                /\ versions' = [versions EXCEPT
                       ![level] = DictDel(@, version_key_edge(from_ref, to_ref, rel))]
                /\ dirty' = [dirty EXCEPT ![level] = TRUE]
                /\ ops' = ops + 1
                /\ last' = [op |-> "delete_edge", level |-> level, key |-> edge_key]
    /\ UNCHANGED <<now, sessions, issued, nodes>>

\* recall that reports every node it cannot recall as missing.
recall_error_one_kind(ns, node_id) ==
    IF node_id \notin NodeIdsOf(ns) \/ ~is_archived(NodeOf(ns, node_id))
    THEN "node not found" ELSE "none"

\* The error recall raises, or "none".
recall_error(ns, node_id) ==
    IF node_id \notin NodeIdsOf(ns) THEN "node not found"
    ELSE IF ~is_archived(NodeOf(ns, node_id)) THEN "not archived"
    ELSE "none"

\* recall that leaves the orphan timestamp on the node.
recalled_node_keep_orphaned_ts(node) == DictDel(node, "_archived")

\* recall: the node after "del node['_archived']" and the removal of "_orphaned_ts".
recalled_node(node) == DictDel(DictDel(node, "_archived"), "_orphaned_ts")

Recall(level, node_id, session_id) ==
    /\ validate_level(level)
    /\ IF recall_error(nodes[level], node_id) # "none"
       THEN UNCHANGED <<nodes, versions, dirty, ops, last>>
       ELSE /\ LET node == recalled_node(NodeOf(nodes[level], node_id))
               IN  /\ nodes' = [nodes EXCEPT ![level] = NodesSet(@, node_id, node)]
                   /\ last' = [op |-> "recall", level |-> level, id |-> node_id,
                               session |-> session_id, ts |-> now,
                               before |-> NodeOf(nodes[level], node_id)]
            /\ versions' = [versions EXCEPT
                   ![level] = bump_version(@, version_key_node(node_id), session_id, now)]
            /\ dirty' = [dirty EXCEPT ![level] = TRUE]
            /\ ops' = ops + 1
    /\ UNCHANGED <<now, sessions, issued, edges>>

-----------------------------------------------------------------------------
(* SessionManager                                                           *)

\* kg_register_session draws a fresh uuid; SessionManager.register stores start_ts.
RegisterSession(session_id) ==
    /\ session_id \notin issued
    /\ sessions' = DictSet(sessions, session_id, [start_ts |-> now])
    /\ issued' = issued \cup {session_id}
    /\ last' = [op |-> "register_session", session |-> session_id, start_ts |-> now]
    /\ UNCHANGED <<now, nodes, edges, versions, dirty, ops>>

is_valid(ss, session_id) == session_id \in DOMAIN ss

\* SessionManager.cleanup_expired: the session table afterwards.
cleanup_expired(ss, t) ==
    LET expired == {sid \in DOMAIN ss : t - ss[sid].start_ts > SESSION_TTL_SECONDS}
    IN  [sid \in (DOMAIN ss) \ expired |-> ss[sid]]

-----------------------------------------------------------------------------
(* Read paths                                                               *)

active_ids(ns) == {ns[i]["id"] : i \in {j \in 1..Len(ns) : ~is_archived(ns[j])}}

\* read that lists an edge only when both its endpoints are active.
read_level_both_endpoints(ns, es) ==
    [nodes |-> SelectSeq(ns, LAMBDA n : ~is_archived(n)),
     edges |-> SelectSeq(es, LAMBDA e : e["from"] \in active_ids(ns)
                                          /\ e["to"] \in active_ids(ns))]

\* KnowledgeGraphStore.read for one level
read_level(ns, es) ==
    [nodes |-> SelectSeq(ns, LAMBDA n : ~is_archived(n)),
     edges |-> SelectSeq(es, LAMBDA e : e["from"] \in active_ids(ns)
                                          \/ e["to"] \in active_ids(ns))]

read == [L \in Levels |-> read_level(nodes[L], edges[L])]

Read == UNCHANGED vars

\* sync that never skips the caller's own writes.
sync_level_include_own(ns, es, vs, start_ts, session_id, exclude_own) ==
    LET changed(key) == DictGet(DictGet(vs, key, EmptyDict), "ts", 0) > start_ts
    IN  [nodes |-> SelectSeq(ns, LAMBDA n :
                       ~is_archived(n) /\ changed(version_key_node(n["id"]))),
         edges |-> SelectSeq(es, LAMBDA e :
                       /\ (e["from"] \in active_ids(ns) \/ e["to"] \in active_ids(ns))
                       /\ changed(version_key_edge(e["from"], e["to"], e["rel"])))]

\* The changes sync reports for one level.
sync_level(ns, es, vs, start_ts, session_id, exclude_own) ==
    LET node_changed(n) ==
            LET ver == DictGet(vs, version_key_node(n["id"]), EmptyDict)
            IN  /\ ~is_archived(n)
                /\ DictGet(ver, "ts", 0) > start_ts
                /\ ~(exclude_own /\ DictGet(ver, "session", NoSession) = session_id)
        edge_changed(e) ==
            LET ver == DictGet(vs, version_key_edge(e["from"], e["to"], e["rel"]), EmptyDict)
            IN  /\ ~(e["from"] \notin active_ids(ns) /\ e["to"] \notin active_ids(ns))
                /\ DictGet(ver, "ts", 0) > start_ts
                /\ ~(exclude_own /\ DictGet(ver, "session", NoSession) = session_id)
    IN  [nodes |-> SelectSeq(ns, node_changed), edges |-> SelectSeq(es, edge_changed)]

\* KnowledgeGraphStore.sync(session_id, exclude_own): the result, or the error it
\* raises.
sync(session_id, exclude_own) ==
    IF ~is_valid(sessions, session_id)
    THEN [error |-> "unknown session"]
    ELSE LET start_ts == sessions[session_id].start_ts
             result == [L \in Levels |->
                           sync_level(nodes[L], edges[L], versions[L], start_ts,
                                      session_id, exclude_own)]
         IN  [since_ts |-> start_ts,
              changes |-> result,
              total_changes |->
                  SumSeq([i \in 1..Len(LEVELS) |->
                             Len(result[LEVELS[i]].nodes) + Len(result[LEVELS[i]].edges)])]

\* kg_sync calls store.sync(session_id): exclude_own keeps its default, True.
kg_sync(session_id) == sync(session_id, TRUE)

Sync(session_id) == UNCHANGED vars

-----------------------------------------------------------------------------
(* core/scorer.py                                                           *)

grace_period_seconds == grace_period_days * DAY

\* score_all without the grace-period skip.
eligible_nodes_no_grace(ns, es, vs, current_time) ==
    LET kept == SelectSeq(ns, LAMBDA n : ~is_archived(n))
    IN  [i \in 1..Len(kept) |->
            [id |-> kept[i]["id"], recency_raw |-> 0, connectedness_raw |-> 0,
             richness_raw |-> 0]]

\* The list "eligible" of score_all for a scorer with the grace period
\* grace_seconds: the nodes past the grace period that are not archived, in dict
\* order, with their raw measures.
eligible_at(grace_seconds, ns, es, vs, current_time) ==
    LET edge_count(id) ==
            Cardinality({i \in 1..Len(es) : es[i]["from"] = id})
                + Cardinality({i \in 1..Len(es) : es[i]["to"] = id})
        age_seconds(n) ==
            LET version == DictGet(vs, version_key_node(n["id"]), EmptyDict)
            IN  current_time - DictGet(version, "ts", current_time)
        keep(n) == ~is_archived(n) /\ ~(age_seconds(n) < grace_seconds)
        item(n) ==
            LET notes == DictGet(n, "notes", <<>>)
            IN  [id |-> n["id"],
                 recency_raw |-> 0 - age_seconds(n),
                 connectedness_raw |-> edge_count(n["id"]) + Len(DictGet(n, "touches", <<>>)),
                 richness_raw |-> Len(DictGet(n, "gist", ""))
                                     + SumSeq([i \in 1..Len(notes) |-> Len(notes[i])])]
        kept == SelectSeq(ns, keep)
    IN  [i \in 1..Len(kept) |-> item(kept[i])]

\* The list "eligible" for the scorer the store was configured with.
eligible_nodes(ns, es, vs, current_time) ==
    eligible_at(grace_period_seconds, ns, es, vs, current_time)

\* Index of items[p] in sorted(items, key=raw_key): sorted() is stable.
sorted_index(items, raw_key, p) ==
    Cardinality({q \in 1..Len(items) :
                    \/ items[q][raw_key] < items[p][raw_key]
                    \/ items[q][raw_key] = items[p][raw_key] /\ q < p})

\* score_all: the scores as a list of [id, score] in the order of the dict it
\* returns.  A percentile is i / (n - 1); the score kept here is the product of the
\* three indices i, that is the score times (n - 1)^3, which orders the nodes as
\* the float product does.  For n = 1 every percentile is 0.5 and the single
\* score is recorded as 1.
percentile_scores(eligible) ==
    LET n == Len(eligible)
    IN  [p \in 1..n |->
            [id |-> eligible[p].id,
             score |-> IF n > 1
                       THEN sorted_index(eligible, "recency_raw", p)
                              * sorted_index(eligible, "connectedness_raw", p)
                              * sorted_index(eligible, "richness_raw", p)
                       ELSE 1]]

\* NodeScorer.score_all of the store's scorer.
score_all(ns, es, vs, current_time) ==
    percentile_scores(eligible_nodes(ns, es, vs, current_time))

-----------------------------------------------------------------------------
(* core/compactor.py                                                        *)

\* target = max_tokens, the ratio forgotten.
compaction_target_no_ratio == max_tokens

\* int(max_tokens * COMPACTION_TARGET_RATIO), COMPACTION_TARGET_RATIO = 0.9
compaction_target == (max_tokens * 9) \div 10

\* The scores in the order the scorer returned them, not sorted.
sort_by_score_dict_order(scores) == scores

\* sorted(scores.items(), key=lambda x: x[1])
sort_by_score(scores) ==
    LET n == Len(scores)
        place(p) == Cardinality({q \in 1..n :
                        \/ scores[q].score < scores[p].score
                        \/ scores[q].score = scores[p].score /\ q < p}) + 1
    IN  [k \in 1..n |-> scores[CHOOSE p \in 1..n : place(p) = k]]

\* The archiving loop cut short: it archives the first node and stops.
archive_until_once(target, ns, sorted_nodes, k, estimated_tokens, archived) ==
    IF k > Len(sorted_nodes) \/ estimated_tokens <= target
    THEN [nodes |-> ns, archived |-> archived, estimated_tokens |-> estimated_tokens]
    ELSE LET node_id == sorted_nodes[k].id
         IN  [nodes |-> NodesSet(ns, node_id, DictSet(NodeOf(ns, node_id), "_archived", TRUE)),
              archived |-> Append(archived, node_id),
              estimated_tokens |-> estimated_tokens - estimate_node(NodeOf(ns, node_id))]

\* The archiving loop that returns no list of what it has archived.
RECURSIVE archive_until_silent(_, _, _, _, _, _)
archive_until_silent(target, ns, sorted_nodes, k, estimated_tokens, archived) ==
    IF k > Len(sorted_nodes) \/ estimated_tokens <= target
    THEN [nodes |-> ns, archived |-> archived, estimated_tokens |-> estimated_tokens]
    ELSE LET node_id == sorted_nodes[k].id
         IN  IF node_id \in NodeIdsOf(ns) /\ ~is_archived(NodeOf(ns, node_id))
             THEN archive_until_silent(
                      target,
                      NodesSet(ns, node_id, DictSet(NodeOf(ns, node_id), "_archived", TRUE)),
                      sorted_nodes, k + 1,
                      estimated_tokens - estimate_node(NodeOf(ns, node_id)),
                      archived)
             ELSE archive_until_silent(target, ns, sorted_nodes, k + 1,
                                       estimated_tokens, archived)

\* The archiving loop of compact_if_needed over sorted_nodes[k..], for the
\* target it has computed.
RECURSIVE archive_until(_, _, _, _, _, _)
archive_until(target, ns, sorted_nodes, k, estimated_tokens, archived) ==
    IF k > Len(sorted_nodes) \/ estimated_tokens <= target
    THEN [nodes |-> ns, archived |-> archived, estimated_tokens |-> estimated_tokens]
    ELSE LET node_id == sorted_nodes[k].id
         IN  IF node_id \in NodeIdsOf(ns) /\ ~is_archived(NodeOf(ns, node_id))
             THEN archive_until(
                      target,
                      NodesSet(ns, node_id, DictSet(NodeOf(ns, node_id), "_archived", TRUE)),
                      sorted_nodes, k + 1,
                      estimated_tokens - estimate_node(NodeOf(ns, node_id)),
                      Append(archived, node_id))
             ELSE archive_until(target, ns, sorted_nodes, k + 1, estimated_tokens, archived)

\* compact_if_needed of a compactor with the limit max and the target it
\* computes from it, given the scores the scorer returns for the nodes.
compact_at(max, target, scores, ns, es) ==
    LET estimated_tokens == estimate_graph(ns, es)
    IN  IF estimated_tokens <= max
        THEN [nodes |-> ns, archived |-> <<>>, estimated_tokens |-> estimated_tokens]
        ELSE IF scores = <<>>
        THEN [nodes |-> ns, archived |-> <<>>, estimated_tokens |-> estimated_tokens]
        ELSE archive_until(target, ns, sort_by_score(scores), 1, estimated_tokens, <<>>)

\* Compactor.compact_if_needed: the nodes afterwards and the list it returns.
compact_if_needed(ns, es, vs, current_time) ==
    compact_at(max_tokens, compaction_target, score_all(ns, es, vs, current_time), ns, es)

-----------------------------------------------------------------------------
(* Maintenance: _maybe_compact, _prune_orphans, _periodic_save              *)

orphan_grace_seconds == orphan_grace_days * DAY

\* Ids an edge joins to an active node ("reachable" in _prune_orphans).
reachable_ids(ns, es) ==
    {es[i]["to"] : i \in {j \in 1..Len(es) : es[j]["from"] \in active_ids(ns)}}
        \cup {es[i]["from"] : i \in {j \in 1..Len(es) : es[j]["to"] \in active_ids(ns)}}

\* The marking without the branch that clears the timestamp of a reconnected node.
mark_orphan_keep(node, reachable, current_time) ==
    IF ~is_archived(node) \/ node["id"] \in reachable THEN node
    ELSE IF "_orphaned_ts" \notin DOMAIN node
    THEN DictSet(node, "_orphaned_ts", current_time)
    ELSE node

\* The marking pass of _prune_orphans over one node.
mark_orphan(node, reachable, current_time) ==
    IF ~is_archived(node) THEN node
    ELSE IF node["id"] \in reachable
    THEN DictDel(node, "_orphaned_ts")
    ELSE IF "_orphaned_ts" \notin DOMAIN node
    THEN DictSet(node, "_orphaned_ts", current_time)
    ELSE node

\* to_delete with ">=" for ">": an orphan goes when its grace period is just over.
orphans_to_delete_at_grace(ns, reachable, current_time) ==
    LET hit == SelectSeq(ns, LAMBDA node :
                   /\ is_archived(node)
                   /\ node["id"] \notin reachable
                   /\ "_orphaned_ts" \in DOMAIN node
                   /\ current_time - node["_orphaned_ts"] >= orphan_grace_seconds)
    IN  [i \in 1..Len(hit) |-> hit[i]["id"]]

\* The ids _prune_orphans collects in to_delete, in dict order.
orphans_to_delete(ns, reachable, current_time) ==
    LET expired(node) ==
            /\ is_archived(node)
            /\ node["id"] \notin reachable
            /\ "_orphaned_ts" \in DOMAIN node
            /\ current_time - node["_orphaned_ts"] > orphan_grace_seconds
        hit == SelectSeq(ns, expired)
    IN  [i \in 1..Len(hit) |-> hit[i]["id"]]

RECURSIVE delete_all(_, _, _, _)
delete_all(ns, es, vs, ids) ==
    IF ids = <<>>
    THEN [nodes |-> ns, edges |-> es, versions |-> vs]
    ELSE LET r == IF Head(ids) \in NodeIdsOf(ns)
                  THEN delete_node_internal(ns, es, vs, Head(ids))
                  ELSE [nodes |-> ns, edges |-> es, versions |-> vs]
         IN  delete_all(r.nodes, r.edges, r.versions, Tail(ids))

\* _prune_orphans on one level: [nodes, edges, versions, dirty] afterwards, where
\* dirty says whether the call set the level's dirty flag.
prune_orphans(ns, es, vs, current_time) ==
    LET reachable == reachable_ids(ns, es)
        to_delete == orphans_to_delete(ns, reachable, current_time)
        marked == [i \in 1..Len(ns) |-> mark_orphan(ns[i], reachable, current_time)]
        r == delete_all(marked, es, vs, to_delete)
    IN  [nodes |-> r.nodes, edges |-> r.edges, versions |-> r.versions,
         dirty |-> (marked # ns \/ to_delete # <<>>),
         deleted |-> to_delete]

\* One level's share of a maintenance tick, up to the save.
maintain_level(ns, es, vs, was_dirty, current_time) ==
    LET c == compact_if_needed(ns, es, vs, current_time)
        p == prune_orphans(c.nodes, es, vs, current_time)
    IN  [nodes |-> p.nodes, edges |-> p.edges, versions |-> p.versions,
         dirty |-> (was_dirty \/ c.archived # <<>> \/ p.dirty),
         archived |-> c.archived, deleted |-> p.deleted]

\* One pass of the loop body of _periodic_save, under the lock: compact, prune and
\* save-if-dirty for each level, then the session cleanup.  save_ok[L] is the
\* outcome of _save_to_disk for level L, which matters when the level is dirty.
Tick ==
    \E m \in {[L \in Levels |->
                  maintain_level(nodes[L], edges[L], versions[L], dirty[L], now)]} :
    \E save_ok \in {f \in [Levels -> BOOLEAN] : \A L \in Levels : ~m[L].dirty => f[L]} :
        /\ nodes' = [L \in Levels |-> m[L].nodes]
        /\ edges' = [L \in Levels |-> m[L].edges]
        /\ versions' = [L \in Levels |-> m[L].versions]
        /\ dirty' = [L \in Levels |-> m[L].dirty /\ ~save_ok[L]]
        /\ sessions' = cleanup_expired(sessions, now)
        /\ last' = [op |-> "tick",
                    archived |-> [L \in Levels |-> m[L].archived],
                    deleted |-> [L \in Levels |-> m[L].deleted]]
        /\ UNCHANGED <<now, issued, ops>>

-----------------------------------------------------------------------------
(* Spec: the life cycle of nodes and edges.  Clients write without a       *)
(* session id.  The calls clients make are drawn from PutNodeCalls and     *)
(* PutEdgeCalls; deletes and recalls address the same ids and triples.     *)

MutatorNames == {"put_node", "put_edge", "delete_node", "delete_edge", "recall"}

PutNodeCalls ==
    {c \in [level : Levels, id : NodeIds, in : NodeInputs] :
        c.level = "project" => (c.id = "a" /\ c.in.gist = "g")}

PutEdgeCalls ==
    {c \in [level : Levels, from : NodeIds, to : NodeIds, rel : Rels] :
        /\ c.from # c.to
        /\ c.level = "project" => c.from = "a"}

NodeRefs == {[level |-> c.level, id |-> c.id] : c \in PutNodeCalls}

Next ==
    \/ Advance /\ UNCHANGED rest
    \/ \E level \in BadLevels, op \in MutatorNames : InvalidLevel(op, level)
    \/ \E c \in PutNodeCalls : ops < MaxOps /\ PutNode(c.level, c.id, c.in, NoSession)
          /\ UNCHANGED rest
    \/ \E c \in PutEdgeCalls :
          ops < MaxOps /\ PutEdge(c.level, c.from, c.to, c.rel, NoSession)
          /\ UNCHANGED rest
    \/ \E c \in NodeRefs : ops < MaxOps /\ DeleteNode(c.level, c.id)
          /\ UNCHANGED rest
    \/ \E c \in PutEdgeCalls : ops < MaxOps /\ DeleteEdge(c.level, c.from, c.to, c.rel)
          /\ UNCHANGED rest
    \/ \E c \in NodeRefs : ops < MaxOps /\ Recall(c.level, c.id, NoSession)
          /\ UNCHANGED rest
    \/ Read
    \/ Tick /\ UNCHANGED rest

Spec == Init /\ [][Next]_vars

-----------------------------------------------------------------------------
(* SyncSpec: sessions and the diff protocol.  Two sessions register and    *)
(* write to the user level; either may sync.                               *)

SyncNodeIds == {"a"}
SyncEdges == {[from |-> "a", to |-> "b", rel |-> "uses"]}
SyncNodeInput == [gist |-> "g", touches |-> <<>>, notes |-> <<>>]

SyncNext ==
    \/ Advance /\ UNCHANGED rest
    \/ \E id \in SyncNodeIds, s \in SessionIds :
          ops < MaxOps /\ PutNode("user", id, SyncNodeInput, s)
          /\ UNCHANGED rest
    \/ \E e \in SyncEdges, s \in SessionIds :
          ops < MaxOps /\ PutEdge("user", e.from, e.to, e.rel, s)
          /\ UNCHANGED rest
    \/ \E id \in SyncNodeIds : ops < MaxOps /\ DeleteNode("user", id)
          /\ UNCHANGED rest
    \/ \E e \in SyncEdges : ops < MaxOps /\ DeleteEdge("user", e.from, e.to, e.rel)
          /\ UNCHANGED rest
    \/ \E id \in SyncNodeIds, s \in SessionIds : ops < MaxOps /\ Recall("user", id, s)
          /\ UNCHANGED rest
    \/ \E s \in SessionIds : RegisterSession(s) /\ UNCHANGED rest
    \/ Read
    \/ \E s \in SessionIds : Sync(s)
    \/ Tick /\ UNCHANGED rest

SyncSpec == Init /\ [][SyncNext]_vars

-----------------------------------------------------------------------------
(* MultiProjectGraphStore (http/store.py) with HTTPSessionManager.  The     *)
(* variables nodes, edges, versions and dirty are indexed by graph key:    *)
(* "user", and "project:<path>" for each project graph loaded so far.  A   *)
(* session is [start_ts, project_path, last_activity].  No graph file      *)
(* exists when a graph is first loaded, so it starts empty.                *)

ProjectPaths == {"/p"}
\* project_path = None
NoPath == "None"
\* (gist, notes, touches) of a put_node call; a missing key stands for None.
HttpNodeInputs == {[gist |-> "g"], [gist |-> "g2", touches |-> <<"f.py">>]}

project_key(project_path) == "project:" \o project_path

\* _load_user_graph in __init__
HttpInit ==
    /\ now = 0
    /\ sessions = EmptyDict
    /\ issued = {}
    /\ nodes = [k \in {"user"} |-> <<>>]
    /\ edges = [k \in {"user"} |-> <<>>]
    /\ versions = [k \in {"user"} |-> EmptyDict]
    /\ dirty = [k \in {"user"} |-> FALSE]
    /\ ops = 0
    /\ last = [op |-> "init"]
    /\ disk = EmptyDict
    /\ running = TRUE
    /\ lock = NoThread
    /\ pc = EmptyDict
    /\ hist = EmptyDict
    /\ backups = EmptyDict

\* HTTPSessionManager.register
HttpRegister(session_id, project_path) ==
    /\ session_id \notin issued
    /\ sessions' = DictSet(sessions, session_id,
                           [start_ts |-> now, project_path |-> project_path,
                            last_activity |-> now])
    /\ issued' = issued \cup {session_id}
    /\ last' = [op |-> "register_session", session |-> session_id, start_ts |-> now]
    /\ UNCHANGED <<now, nodes, edges, versions, dirty, ops>>

\* HTTPSessionManager._update_activity
update_activity(ss, session_id, t) ==
    IF session_id \in DOMAIN ss
    THEN [ss EXCEPT ![session_id].last_activity = t]
    ELSE ss

\* A cleanup of the multi-project session table that goes by start_ts.
http_cleanup_expired_by_start(ss, t) ==
    LET expired == {sid \in DOMAIN ss : t - ss[sid].start_ts > SESSION_TTL_SECONDS}
    IN  [sid \in (DOMAIN ss) \ expired |-> ss[sid]]

\* HTTPSessionManager.cleanup_expired: the session table afterwards.
http_cleanup_expired(ss, t) ==
    LET expired == {sid \in DOMAIN ss : t - ss[sid].last_activity > SESSION_TTL_SECONDS}
    IN  [sid \in (DOMAIN ss) \ expired |-> ss[sid]]

\* _get_graph_key that falls back to the first known project when the call
\* names no session, or a session that is not in the table.
get_graph_key_default(ss, level, session_id) ==
    IF ~validate_level(level)
    THEN [error |-> "invalid level", touched |-> FALSE]
    ELSE IF level = "user"
    THEN [error |-> "none", key |-> "user", touched |-> FALSE]
    ELSE IF session_id = NoSession \/ session_id \notin DOMAIN ss
    THEN [error |-> "none", key |-> project_key(CHOOSE p \in ProjectPaths : TRUE),
          touched |-> FALSE]
    ELSE IF ss[session_id].project_path = NoPath
    THEN [error |-> "no project_path", touched |-> TRUE]
    ELSE [error |-> "none", key |-> project_key(ss[session_id].project_path),
          touched |-> TRUE]

\* _get_graph_key: the key, or the error raised; touched says whether
\* get_project_path has refreshed the session's last_activity on the way.
get_graph_key(ss, level, session_id) ==
    IF ~validate_level(level)
    THEN [error |-> "invalid level", touched |-> FALSE]
    ELSE IF level = "user"
    THEN [error |-> "none", key |-> "user", touched |-> FALSE]
    ELSE IF session_id = NoSession
    THEN [error |-> "session_id required", touched |-> FALSE]
    ELSE IF session_id \notin DOMAIN ss
    THEN [error |-> "unknown session", touched |-> FALSE]
    ELSE IF ss[session_id].project_path = NoPath
    THEN [error |-> "no project_path", touched |-> TRUE]
    ELSE [error |-> "none", key |-> project_key(ss[session_id].project_path),
          touched |-> TRUE]

\* _ensure_project_loaded on one of the dicts graphs, _versions, dirty.
ensure_loaded(d, graph_key, empty) ==
    IF graph_key \in DOMAIN d THEN d ELSE DictSet(d, graph_key, empty)

\* The session table after a mutator has looked up its graph key.
after_lookup(k, session_id) ==
    IF k.touched THEN update_activity(sessions, session_id, now) ELSE sessions

\* A mutator that raised after the lookup: nothing but last_activity has changed.
HttpFailed(k, session_id) ==
    /\ sessions' = after_lookup(k, session_id)
    /\ UNCHANGED <<now, issued, nodes, edges, versions, dirty, ops, last>>

\* MultiProjectGraphStore.put_node, with the compaction it ends with.
HttpPutNode(level, node_id, in, session_id) ==
    LET k == get_graph_key(sessions, level, session_id)
    IN  IF k.error # "none"
        THEN HttpFailed(k, session_id)
        ELSE LET ns == ensure_loaded(nodes, k.key, <<>>)[k.key]
                 es == ensure_loaded(edges, k.key, <<>>)[k.key]
                 vs == ensure_loaded(versions, k.key, EmptyDict)[k.key]
                 old == IF node_id \in NodeIdsOf(ns)
                        THEN NodeOf(ns, node_id) ELSE [id |-> node_id]
                 node == in @@ DictDel(DictDel(old, "_archived"), "_orphaned_ts")
                 vs1 == bump_version(vs, version_key_node(node_id), session_id, now)
                 c == compact_if_needed(NodesSet(ns, node_id, node), es, vs1, now)
             IN  /\ nodes' = DictSet(nodes, k.key, c.nodes)
                 /\ edges' = DictSet(edges, k.key, es)
                 /\ versions' = DictSet(versions, k.key, vs1)
                 /\ dirty' = DictSet(dirty, k.key, TRUE)
                 /\ sessions' = after_lookup(k, session_id)
                 /\ ops' = ops + 1
                 /\ last' = [op |-> "put_node", level |-> level, key |-> k.key,
                             id |-> node_id, in |-> in, session |-> session_id,
                             ts |-> now, before |-> old, archived |-> c.archived]
                 /\ UNCHANGED <<now, issued>>

\* MultiProjectGraphStore.put_edge (notes = None)
HttpPutEdge(level, from_ref, to_ref, rel, session_id) ==
    LET k == get_graph_key(sessions, level, session_id)
    IN  IF k.error # "none"
        THEN HttpFailed(k, session_id)
        ELSE LET ns == ensure_loaded(nodes, k.key, <<>>)[k.key]
                 es == ensure_loaded(edges, k.key, <<>>)[k.key]
                 vs == ensure_loaded(versions, k.key, EmptyDict)[k.key]
                 edge_key == <<from_ref, to_ref, rel>>
                 edge == IF edge_key \in EdgeKeysOf(es)
                         THEN es[EdgePos(es, edge_key)]
                         ELSE [from |-> from_ref, to |-> to_ref, rel |-> rel]
             IN  /\ nodes' = DictSet(nodes, k.key, ns)
                 /\ edges' = DictSet(edges, k.key, EdgesSet(es, edge))
                 /\ versions' = DictSet(versions, k.key,
                        bump_version(vs, version_key_edge(from_ref, to_ref, rel),
                                     session_id, now))
                 /\ dirty' = DictSet(dirty, k.key, TRUE)
                 /\ sessions' = after_lookup(k, session_id)
                 /\ ops' = ops + 1
                 /\ last' = [op |-> "put_edge", level |-> level, key |-> k.key,
                             edge |-> edge, session |-> session_id, ts |-> now]
                 /\ UNCHANGED <<now, issued>>

\* The node and edge dicts after a node and its edges are deleted; the store
\* leaves the version records in place.
http_delete_node(ns, es, node_id) ==
    [nodes |-> NodesDel(ns, node_id),
     edges |-> SelectSeq(es, LAMBDA e : ~(e["from"] = node_id \/ e["to"] = node_id))]

\* MultiProjectGraphStore.delete_node
HttpDeleteNode(level, node_id, session_id) ==
    LET k == get_graph_key(sessions, level, session_id)
    IN  IF k.error # "none"
        THEN HttpFailed(k, session_id)
        ELSE LET ns == ensure_loaded(nodes, k.key, <<>>)[k.key]
                 es == ensure_loaded(edges, k.key, <<>>)[k.key]
                 found == node_id \in NodeIdsOf(ns)
                 r == IF found THEN http_delete_node(ns, es, node_id)
                      ELSE [nodes |-> ns, edges |-> es]
             IN  /\ nodes' = DictSet(nodes, k.key, r.nodes)
                 /\ edges' = DictSet(edges, k.key, r.edges)
                 /\ versions' = ensure_loaded(versions, k.key, EmptyDict)
                 /\ dirty' = IF found THEN DictSet(dirty, k.key, TRUE)
                             ELSE ensure_loaded(dirty, k.key, FALSE)
                 /\ sessions' = after_lookup(k, session_id)
                 /\ ops' = IF found THEN ops + 1 ELSE ops
                 /\ last' = IF found
                            THEN [op |-> "delete_node", level |-> level, key |-> k.key,
                                  id |-> node_id,
                                  edges_deleted |-> Len(es) - Len(r.edges)]
                            ELSE last
                 /\ UNCHANGED <<now, issued>>

\* MultiProjectGraphStore.delete_edge: the edge goes, its version record stays.
HttpDeleteEdge(level, from_ref, to_ref, rel, session_id) ==
    LET k == get_graph_key(sessions, level, session_id)
    IN  IF k.error # "none"
        THEN HttpFailed(k, session_id)
        ELSE LET es == ensure_loaded(edges, k.key, <<>>)[k.key]
                 edge_key == <<from_ref, to_ref, rel>>
                 found == edge_key \in EdgeKeysOf(es)
             IN  /\ nodes' = ensure_loaded(nodes, k.key, <<>>)
                 /\ edges' = DictSet(edges, k.key,
                        IF found THEN EdgesDel(es, edge_key) ELSE es)
                 /\ versions' = ensure_loaded(versions, k.key, EmptyDict)
                 /\ dirty' = IF found THEN DictSet(dirty, k.key, TRUE)
                             ELSE ensure_loaded(dirty, k.key, FALSE)
                 /\ sessions' = after_lookup(k, session_id)
                 /\ ops' = IF found THEN ops + 1 ELSE ops
                 /\ last' = IF found
                            THEN [op |-> "delete_edge", level |-> level, key |-> k.key,
                                  edge |-> edge_key]
                            ELSE last
                 /\ UNCHANGED <<now, issued>>

\* MultiProjectGraphStore.recall_node
HttpRecall(level, node_id, session_id) ==
    LET k == get_graph_key(sessions, level, session_id)
    IN  IF k.error # "none"
        THEN HttpFailed(k, session_id)
        ELSE LET ns == ensure_loaded(nodes, k.key, <<>>)[k.key]
                 vs == ensure_loaded(versions, k.key, EmptyDict)[k.key]
                 ok == recall_error(ns, node_id) = "none"
             IN  /\ nodes' = DictSet(nodes, k.key,
                        IF ok THEN NodesSet(ns, node_id, recalled_node(NodeOf(ns, node_id)))
                        ELSE ns)
                 /\ edges' = ensure_loaded(edges, k.key, <<>>)
                 /\ versions' = DictSet(versions, k.key,
                        IF ok THEN bump_version(vs, version_key_node(node_id),
                                                session_id, now)
                        ELSE vs)
                 /\ dirty' = IF ok THEN DictSet(dirty, k.key, TRUE)
                             ELSE ensure_loaded(dirty, k.key, FALSE)
                 /\ sessions' = after_lookup(k, session_id)
                 /\ ops' = IF ok THEN ops + 1 ELSE ops
                 /\ last' = IF ok
                            THEN [op |-> "recall", level |-> level, key |-> k.key,
                                  id |-> node_id, session |-> session_id, ts |-> now]
                            ELSE last
                 /\ UNCHANGED <<now, issued>>

\* The project graph key read_graphs and get_sync_diff look at for a session, or
\* NoPath: get_project_path raises for an unknown session, and the caller
\* catches whatever it raises.
session_project_key(session_id) ==
    IF session_id \in DOMAIN sessions /\ sessions[session_id].project_path # NoPath
    THEN project_key(sessions[session_id].project_path)
    ELSE NoPath

\* MultiProjectGraphStore.read_graphs: the result.
read_graphs(session_id) ==
    LET pk == IF session_id = NoSession THEN NoPath ELSE session_project_key(session_id)
    IN  [user |-> [nodes |-> nodes["user"], edges |-> edges["user"]],
         project |-> IF pk = NoPath
                     THEN [nodes |-> <<>>, edges |-> <<>>]
                     ELSE [nodes |-> ensure_loaded(nodes, pk, <<>>)[pk],
                           edges |-> ensure_loaded(edges, pk, <<>>)[pk]]]

\* kg_read / GET /api/graph/read: read_graphs refreshes the session's
\* last_activity and loads its project graph.
HttpRead(session_id) ==
    LET pk == IF session_id = NoSession THEN NoPath ELSE session_project_key(session_id)
    IN  /\ sessions' = IF session_id = NoSession THEN sessions
                       ELSE update_activity(sessions, session_id, now)
        /\ nodes' = IF pk = NoPath THEN nodes ELSE ensure_loaded(nodes, pk, <<>>)
        /\ edges' = IF pk = NoPath THEN edges ELSE ensure_loaded(edges, pk, <<>>)
        /\ versions' = IF pk = NoPath THEN versions
                       ELSE ensure_loaded(versions, pk, EmptyDict)
        /\ dirty' = IF pk = NoPath THEN dirty ELSE ensure_loaded(dirty, pk, FALSE)
        /\ UNCHANGED <<now, issued, ops, last>>

\* f"{edge['from']}->{edge['to']}:{edge['rel']}"
edge_id(e) == e["from"] \o "->" \o e["to"] \o ":" \o e["rel"]

\* get_updates of get_sync_diff for one graph: the nodes by id and the edges by
\* edge id whose version record has ts > start_ts and another session.
get_updates(ns, es, vs, start_ts, session_id) ==
    LET changed(key) ==
            key \in DOMAIN vs /\ vs[key].ts > start_ts /\ vs[key].session # session_id
        ids == {id \in NodeIdsOf(ns) : changed(version_key_node(id))}
        hit == {e \in Range(es) : changed("edge:" \o edge_id(e))}
    IN  [nodes |-> [id \in ids |-> NodeOf(ns, id)],
         edges |-> [eid \in {edge_id(e) : e \in hit} |->
                       es[CHOOSE i \in 1..Len(es) :
                              /\ edge_id(es[i]) = eid
                              /\ \A j \in 1..(i - 1) : edge_id(es[j]) # eid]]]

\* MultiProjectGraphStore.get_sync_diff: the result.  It raises for no session id.
get_sync_diff(session_id, start_ts) ==
    LET pk == session_project_key(session_id)
    IN  [user |-> get_updates(nodes["user"], edges["user"], versions["user"],
                              start_ts, session_id),
         project |-> IF pk # NoPath /\ pk \in DOMAIN nodes
                     THEN get_updates(nodes[pk], edges[pk], versions[pk],
                                      start_ts, session_id)
                     ELSE [nodes |-> EmptyDict, edges |-> EmptyDict]]

\* GET /api/graph/sync (app.py sync_graph): the response body; the start_ts is
\* the client's.
sync_graph(session_id, start_ts) == get_sync_diff(session_id, start_ts)

\* The kg_sync tool of the MCP servers: get_start_ts raises for an unknown id.
http_kg_sync(session_id) ==
    IF session_id \notin DOMAIN sessions
    THEN [error |-> "unknown session"]
    ELSE get_sync_diff(session_id, sessions[session_id].start_ts)

\* A call of sync_graph: get_project_path refreshes last_activity of a known id.
HttpSync(session_id, start_ts) ==
    /\ start_ts \in 0..MaxTime
    /\ sessions' = update_activity(sessions, session_id, now)
    /\ UNCHANGED <<now, issued, nodes, edges, versions, dirty, ops, last>>

\* A call of the kg_sync tool.
McpSync(session_id) ==
    /\ sessions' = update_activity(sessions, session_id, now)
    /\ UNCHANGED <<now, issued, nodes, edges, versions, dirty, ops, last>>

RECURSIVE http_delete_all(_, _, _)
http_delete_all(ns, es, ids) ==
    IF ids = <<>>
    THEN [nodes |-> ns, edges |-> es]
    ELSE LET r == http_delete_node(ns, es, Head(ids))
         IN  http_delete_all(r.nodes, r.edges, Tail(ids))

\* MultiProjectGraphStore._prune_orphans on one graph.
http_prune_orphans(ns, es, current_time) ==
    LET reachable == reachable_ids(ns, es)
        to_delete == orphans_to_delete(ns, reachable, current_time)
        marked == [i \in 1..Len(ns) |-> mark_orphan(ns[i], reachable, current_time)]
        r == http_delete_all(marked, es, to_delete)
    IN  [nodes |-> r.nodes, edges |-> r.edges,
         dirty |-> (marked # ns \/ to_delete # <<>>),
         deleted |-> to_delete]

\* One graph's share of a maintenance tick, up to the save.
http_maintain(ns, es, vs, was_dirty, current_time) ==
    LET c == compact_if_needed(ns, es, vs, current_time)
        p == http_prune_orphans(c.nodes, es, current_time)
    IN  [nodes |-> p.nodes, edges |-> p.edges,
         dirty |-> (was_dirty \/ c.archived # <<>> \/ p.dirty),
         archived |-> c.archived, deleted |-> p.deleted]

\* One pass of the loop body of MultiProjectGraphStore._periodic_save.
HttpTick ==
    \E m \in {[k \in DOMAIN nodes |->
                  http_maintain(nodes[k], edges[k], versions[k], dirty[k], now)]} :
    \E save_ok \in {f \in [DOMAIN nodes -> BOOLEAN] :
                       \A k \in DOMAIN nodes : ~m[k].dirty => f[k]} :
        /\ nodes' = [k \in DOMAIN nodes |-> m[k].nodes]
        /\ edges' = [k \in DOMAIN nodes |-> m[k].edges]
        /\ dirty' = [k \in DOMAIN nodes |-> m[k].dirty /\ ~save_ok[k]]
        /\ sessions' = http_cleanup_expired(sessions, now)
        /\ last' = [op |-> "tick",
                    archived |-> [k \in DOMAIN nodes |-> m[k].archived],
                    deleted |-> [k \in DOMAIN nodes |-> m[k].deleted]]
        /\ UNCHANGED <<now, issued, versions, ops>>

-----------------------------------------------------------------------------
(* MSpec: the multi-project store.  Sessions register with or without a    *)
(* project path; clients write with a session id or without one.           *)

HttpNodeIds == {"a"}
HttpEdges == {[from |-> "a", to |-> "b", rel |-> "uses"]}
HttpSessionIds == {"s1"}
HttpCallers == HttpSessionIds \cup {NoSession}
\* Edge writes, deletes and recalls address the user graph without a session id
\* and the project graph under one.
HttpNodeRefs ==
    {c \in [level : Levels, session : HttpCallers] :
        c.level = "user" <=> c.session = NoSession}
HttpPutNodeCalls ==
    {c \in [level : Levels, session : HttpCallers, id : HttpNodeIds, in : HttpNodeInputs] :
        (c.level = "project" \/ c.session # NoSession) => c.in = [gist |-> "g"]}

MNext ==
    \/ Advance /\ UNCHANGED rest
    \/ \E s \in HttpSessionIds, path \in ProjectPaths \cup {NoPath} : HttpRegister(s, path)
          /\ UNCHANGED rest
    \/ \E c \in HttpPutNodeCalls :
          ops < MaxOps /\ HttpPutNode(c.level, c.id, c.in, c.session)
          /\ UNCHANGED rest
    \/ \E c \in HttpNodeRefs, e \in HttpEdges :
          ops < MaxOps /\ HttpPutEdge(c.level, e.from, e.to, e.rel, c.session)
          /\ UNCHANGED rest
    \/ \E c \in HttpNodeRefs, id \in HttpNodeIds :
          ops < MaxOps /\ HttpDeleteNode(c.level, id, c.session)
          /\ UNCHANGED rest
    \/ \E c \in HttpNodeRefs, id \in HttpNodeIds :
          ops < MaxOps /\ HttpRecall(c.level, id, c.session)
          /\ UNCHANGED rest
    \/ \E s \in HttpCallers : HttpRead(s) /\ UNCHANGED rest
    \/ \E s \in HttpSessionIds, t \in 0..MaxTime : HttpSync(s, t)
          /\ UNCHANGED rest
    \/ \E s \in HttpSessionIds : McpSync(s) /\ UNCHANGED rest
    \/ HttpTick /\ UNCHANGED rest

MSpec == HttpInit /\ [][MNext]_vars

-----------------------------------------------------------------------------
(* OrphanSpec: the orphan pruner.  The store has loaded (_load_all) a user  *)
(* graph that holds an archived node "a" and an active node "b"; clients    *)
(* join and separate the two, write and recall, and maintenance ticks run.  *)
(* hist[L][id] is the time since which node id of level L has been archived *)
(* without a break and without an edge to or from an active node, or Never. *)

Never == 0 - 1

OrphanNodeIds == {"a", "b"}
OrphanEdge == [from |-> "b", to |-> "a", rel |-> "uses"]

\* The graph file of the user level that the store starts from.
OrphanLoaded ==
    [nodes |-> << [id |-> "a", gist |-> "g", _archived |-> TRUE], [id |-> "b", gist |-> "g"] >>,
     edges |-> <<>>,
     versions |-> ("node:a" :> [v |-> 1, ts |-> 0, session |-> NoSession])
                      @@ ("node:b" :> [v |-> 1, ts |-> 0, session |-> NoSession])]

\* Node id is stored, archived, and no edge joins it to an active node.
cut_off(ns, es, id) ==
    /\ id \in NodeIdsOf(ns)
    /\ is_archived(NodeOf(ns, id))
    /\ id \notin reachable_ids(ns, es)

\* The history after a step that leaves the graphs ns, es at time t.
track(h, ns, es, t) ==
    [L \in Levels |-> [id \in OrphanNodeIds |->
        IF cut_off(ns[L], es[L], id)
        THEN (IF h[L][id] # Never THEN h[L][id] ELSE t)
        ELSE Never]]

OrphanInit ==
    /\ now = 0
    /\ sessions = EmptyDict
    /\ issued = {}
    /\ nodes = [L \in Levels |-> IF L = "user" THEN OrphanLoaded.nodes ELSE <<>>]
    /\ edges = [L \in Levels |-> <<>>]
    /\ versions = [L \in Levels |-> IF L = "user" THEN OrphanLoaded.versions ELSE EmptyDict]
    /\ dirty = [L \in Levels |-> FALSE]
    /\ ops = 0
    /\ last = [op |-> "init"]
    /\ hist = track([L \in Levels |-> [id \in OrphanNodeIds |-> Never]], nodes, edges, now)
    /\ disk = EmptyDict
    /\ running = TRUE
    /\ lock = NoThread
    /\ pc = EmptyDict
    /\ backups = EmptyDict

\* The history follows every step; files, threads and backups are left out.
Tracked ==
    /\ hist' = track(hist, nodes', edges', now')
    /\ UNCHANGED <<disk, running, lock, pc, backups>>

OrphanNext ==
    \/ Advance /\ Tracked
    \/ \E id \in OrphanNodeIds :
          ops < MaxOps /\ PutNode("user", id, SyncNodeInput, NoSession) /\ Tracked
    \/ ops < MaxOps
          /\ PutEdge("user", OrphanEdge.from, OrphanEdge.to, OrphanEdge.rel, NoSession)
          /\ Tracked
    \/ ops < MaxOps
          /\ DeleteEdge("user", OrphanEdge.from, OrphanEdge.to, OrphanEdge.rel)
          /\ Tracked
    \/ \E id \in OrphanNodeIds : ops < MaxOps /\ DeleteNode("user", id) /\ Tracked
    \/ \E id \in OrphanNodeIds : ops < MaxOps /\ Recall("user", id, NoSession) /\ Tracked
    \/ Tick /\ Tracked

OrphanSpec == OrphanInit /\ [][OrphanNext]_vars

-----------------------------------------------------------------------------
(* PersistSpec: the store as a process with two threads and its files.      *)
(* "worker" runs _periodic_save; "main" serves the clients' calls and then  *)
(* runs shutdown.  disk[L] holds the graph file of level L ("json") and     *)
(* its temporary file ("tmp").  pc[t] is the position of thread t; during   *)
(* a save it also holds the level index i and v0, the content the graph     *)
(* file had when the save began.  The process may be killed at any step     *)
(* and started again.                                                       *)

\* No file at the path.
Absent == [file |-> "absent"]
\* A file json.load rejects: created and still empty, or cut short.
Torn == [file |-> "torn"]
\* JSON null, None once loaded.
JsonNull == "None"

\* A graph file edited by hand: node m has a null gist.
BadDoc ==
    [nodes |-> <<[id |-> "m", gist |-> JsonNull]>>, edges |-> <<>>,
     _meta |-> [versions |-> EmptyDict]]

edge_storage_key(from_ref, to_ref, rel) == from_ref \o "->" \o to_ref \o ":" \o rel

\* The edges of the file: one entry per storage key, at the place of the key's
\* first edge and with its last edge.
edges_for_disk(es) ==
    LET k(i) == edge_storage_key(es[i]["from"], es[i]["to"], es[i]["rel"])
        firsts == SelectSeq([i \in 1..Len(es) |-> i],
                            LAMBDA i : \A j \in 1..(i - 1) : k(j) # k(i))
        final(i) == CHOOSE j \in i..Len(es) :
                        k(j) = k(i) /\ \A m \in (j + 1)..Len(es) : k(m) # k(i)
    IN  [n \in 1..Len(firsts) |-> [key |-> k(firsts[n]), edge |-> es[final(firsts[n])]]]

\* The document save() serialises.
document(ns, es, vs) ==
    [nodes |-> ns, edges |-> edges_for_disk(es), _meta |-> [versions |-> vs]]

RECURSIVE load_edges(_, _)
load_edges(entries, es) ==
    IF entries = <<>> THEN es
    ELSE load_edges(Tail(entries), EdgesSet(es, Head(entries).edge))

\* load(): [nodes, edges, versions] read from a file.
load(file) ==
    IF file \in {Absent, Torn}
    THEN [nodes |-> <<>>, edges |-> <<>>, versions |-> EmptyDict]
    ELSE [nodes |-> SelectSeq(file.nodes, LAMBDA n : n["id"] # "_meta"),
          edges |-> load_edges(file.edges, <<>>),
          versions |-> file["_meta"].versions]

\* estimate_graph raises TypeError: len() of the None gist of a node it counts.
estimate_raises(ns) ==
    \E i \in 1..Len(ns) : ~is_archived(ns[i]) /\ DictGet(ns[i], "gist", "") = JsonNull

\* The file save() writes before the rename.
temp_path_in_place == "json"
temp_path == "tmp"

\* Acquiring the lock, for a thread that does not hold it.
lock_free_always(owner) == TRUE
lock_free(owner) == owner = NoThread

\* The except branch of save(): the files of the level afterwards.
cleanup_temp_keep(files) == files
cleanup_temp(files) == [files EXCEPT ![temp_path] = Absent]

Threads == {"worker", "main"}
SavePositions == {"open", "dump", "fsync", "replace"}

PersistInit ==
    /\ now = 0
    /\ sessions = EmptyDict
    /\ issued = {}
    /\ disk \in {[L \in Levels |-> [json |-> IF L = "user" THEN d ELSE Absent,
                                    tmp |-> Absent]] : d \in {Absent, BadDoc}}
    /\ nodes = [L \in Levels |-> load(disk[L]["json"]).nodes]
    /\ edges = [L \in Levels |-> load(disk[L]["json"]).edges]
    /\ versions = [L \in Levels |-> load(disk[L]["json"]).versions]
    /\ dirty = [L \in Levels |-> FALSE]
    /\ ops = 0
    /\ last = [op |-> "init"]
    /\ running = TRUE
    /\ lock = NoThread
    /\ pc = [t \in Threads |-> IF t = "worker" THEN [at |-> "check"] ELSE [at |-> "serving"]]
    /\ hist = EmptyDict
    /\ backups = EmptyDict

\* Where the worker goes after level LEVELS[i].
worker_next(i) ==
    IF i < Len(LEVELS) THEN [at |-> "maintain", i |-> i + 1] ELSE [at |-> "cleanup"]

\* Where shutdown goes after level LEVELS[i]: out of the lock, without a save.
flush_none(i, ok, flushed) == [at |-> "release", ok |-> ok, flushed |-> flushed]

\* Where shutdown goes after level LEVELS[i]: to the save of the next dirty
\* level, or out of the lock.  ok: no save of this shutdown has failed;
\* flushed: the levels this shutdown has saved.
flush_next(i, ok, flushed) ==
    LET todo == {j \in (i + 1)..Len(LEVELS) : dirty[LEVELS[j]]}
    IN  IF todo = {} THEN [at |-> "release", ok |-> ok, flushed |-> flushed]
        ELSE LET j == CHOOSE j \in todo : \A m \in todo : j <= m
             IN  [at |-> "open", i |-> j, v0 |-> disk[LEVELS[j]]["json"],
                  ok |-> ok, flushed |-> flushed]

\* while self.running
WorkerCheck ==
    /\ pc["worker"].at = "check"
    /\ pc' = [pc EXCEPT !["worker"] = [at |-> IF running THEN "sleep" ELSE "exited"]]
    /\ UNCHANGED <<now, sessions, issued, nodes, edges, versions, dirty, ops, last,
                   disk, running, lock, hist, backups>>

\* time.sleep returns and the worker enters "with self.lock".
WorkerWake ==
    /\ pc["worker"].at = "sleep"
    /\ lock_free(lock)
    /\ lock' = "worker"
    /\ pc' = [pc EXCEPT !["worker"] = [at |-> "maintain", i |-> 1]]
    /\ UNCHANGED <<now, sessions, issued, nodes, edges, versions, dirty, ops, last,
                   disk, running, hist, backups>>

\* _maybe_compact and _prune_orphans of one level.  An exception leaves the
\* with block, which releases the lock, and ends the thread.
WorkerMaintain ==
    /\ pc["worker"].at = "maintain"
    /\ LET i == pc["worker"].i
           L == LEVELS[i]
       IN  IF estimate_raises(nodes[L])
           THEN /\ pc' = [pc EXCEPT !["worker"] = [at |-> "dead"]]
                /\ lock' = NoThread
                /\ UNCHANGED <<nodes, edges, versions, dirty>>
           ELSE LET m == maintain_level(nodes[L], edges[L], versions[L], dirty[L], now)
                IN  /\ nodes' = [nodes EXCEPT ![L] = m.nodes]
                    /\ edges' = [edges EXCEPT ![L] = m.edges]
                    /\ versions' = [versions EXCEPT ![L] = m.versions]
                    /\ dirty' = [dirty EXCEPT ![L] = m.dirty]
                    /\ pc' = [pc EXCEPT !["worker"] =
                                 IF m.dirty
                                 THEN [at |-> "open", i |-> i, v0 |-> disk[L]["json"]]
                                 ELSE worker_next(i)]
                    /\ UNCHANGED lock
    /\ UNCHANGED <<now, sessions, issued, ops, last, disk, running, hist, backups>>

\* What follows save() in thread t at level LEVELS[i].  _periodic_save clears
\* the dirty flag when the save succeeded; shutdown ignores the outcome.
after_save(t, i, success) ==
    /\ dirty' = IF t = "worker" /\ success THEN [dirty EXCEPT ![LEVELS[i]] = FALSE]
                ELSE dirty
    /\ pc' = [pc EXCEPT ![t] = IF t = "worker" THEN worker_next(i)
                               ELSE flush_next(i, pc[t].ok /\ success,
                                               IF success THEN pc[t].flushed \cup {LEVELS[i]}
                                               ELSE pc[t].flushed)]

\* open(temp_path, 'w')
SaveOpen(t) ==
    /\ pc[t].at = "open"
    /\ disk' = [disk EXCEPT ![LEVELS[pc[t].i]][temp_path] = Torn]
    /\ pc' = [pc EXCEPT ![t].at = "dump"]
    /\ UNCHANGED <<now, sessions, issued, nodes, edges, versions, dirty, ops, last,
                   running, lock, hist, backups>>

\* json.dump and f.flush
SaveDump(t) ==
    /\ pc[t].at = "dump"
    /\ LET L == LEVELS[pc[t].i]
       IN  disk' = [disk EXCEPT ![L][temp_path] = document(nodes[L], edges[L], versions[L])]
    /\ pc' = [pc EXCEPT ![t].at = "fsync"]
    /\ UNCHANGED <<now, sessions, issued, nodes, edges, versions, dirty, ops, last,
                   running, lock, hist, backups>>

\* os.fsync and the close of the file
SaveFsync(t) ==
    /\ pc[t].at = "fsync"
    /\ pc' = [pc EXCEPT ![t].at = "replace"]
    /\ UNCHANGED <<now, sessions, issued, nodes, edges, versions, dirty, ops, last,
                   disk, running, lock, hist, backups>>

\* temp_path.replace(self.path); save returns True.
SaveReplace(t) ==
    /\ pc[t].at = "replace"
    /\ LET L == LEVELS[pc[t].i]
       IN  disk' = [disk EXCEPT ![L] =
                       [json |-> @[temp_path],
                        tmp |-> IF temp_path = "tmp" THEN Absent ELSE @["tmp"]]]
    /\ after_save(t, pc[t].i, TRUE)
    /\ UNCHANGED <<now, sessions, issued, nodes, edges, versions, ops, last,
                   running, lock, hist, backups>>

\* A statement of save() raises: the except branch removes the temporary file
\* and save returns False.
SaveFail(t) ==
    /\ pc[t].at \in SavePositions
    /\ disk' = [disk EXCEPT ![LEVELS[pc[t].i]] = cleanup_temp(@)]
    /\ after_save(t, pc[t].i, FALSE)
    /\ UNCHANGED <<now, sessions, issued, nodes, edges, versions, ops, last,
                   running, lock, hist, backups>>

\* session_manager.cleanup_expired, the end of the with block and of the pass.
WorkerFinish ==
    /\ pc["worker"].at = "cleanup"
    /\ sessions' = cleanup_expired(sessions, now)
    /\ lock' = NoThread
    /\ pc' = [pc EXCEPT !["worker"] = [at |-> "check"]]
    /\ UNCHANGED <<now, issued, nodes, edges, versions, dirty, ops, last,
                   disk, running, hist, backups>>

\* A client's put_node, which runs under the lock from start to end.
ClientPut(level) ==
    /\ pc["main"].at = "serving"
    /\ lock_free(lock)
    /\ ops < MaxOps
    /\ PutNode(level, "a", SyncNodeInput, NoSession)
    /\ UNCHANGED rest

\* shutdown: self.running = False
ShutdownStart ==
    /\ pc["main"].at = "serving"
    /\ running' = FALSE
    /\ pc' = [pc EXCEPT !["main"] = [at |-> "acquire"]]
    /\ UNCHANGED <<now, sessions, issued, nodes, edges, versions, dirty, ops, last,
                   disk, lock, hist, backups>>

\* shutdown: with self.lock
ShutdownLock ==
    /\ pc["main"].at = "acquire"
    /\ lock_free(lock)
    /\ lock' = "main"
    /\ pc' = [pc EXCEPT !["main"] = flush_next(0, TRUE, {})]
    /\ UNCHANGED <<now, sessions, issued, nodes, edges, versions, dirty, ops, last,
                   disk, running, hist, backups>>

\* shutdown: the end of the with block; shutdown returns.
ShutdownRelease ==
    /\ pc["main"].at = "release"
    /\ lock' = NoThread
    /\ pc' = [pc EXCEPT !["main"] = [pc["main"] EXCEPT !.at = "returned"]]
    /\ UNCHANGED <<now, sessions, issued, nodes, edges, versions, dirty, ops, last,
                   disk, running, hist, backups>>

\* The process is killed and started again: __init__ loads the graph files.
\* The files stay as they are.
Crash ==
    /\ nodes' = [L \in Levels |-> load(disk[L]["json"]).nodes]
    /\ edges' = [L \in Levels |-> load(disk[L]["json"]).edges]
    /\ versions' = [L \in Levels |-> load(disk[L]["json"]).versions]
    /\ dirty' = [L \in Levels |-> FALSE]
    /\ sessions' = EmptyDict
    /\ running' = TRUE
    /\ lock' = NoThread
    /\ pc' = [t \in Threads |-> IF t = "worker" THEN [at |-> "check"] ELSE [at |-> "serving"]]
    /\ last' = [op |-> "restart", pc |-> pc]
    /\ UNCHANGED <<now, issued, ops, disk, hist, backups>>

PersistNext ==
    \/ WorkerCheck
    \/ WorkerWake
    \/ WorkerMaintain
    \/ WorkerFinish
    \/ \E t \in Threads : SaveOpen(t)
    \/ \E t \in Threads : SaveDump(t)
    \/ \E t \in Threads : SaveFsync(t)
    \/ \E t \in Threads : SaveReplace(t)
    \/ \E t \in Threads : SaveFail(t)
    \/ \E L \in Levels : ClientPut(L)
    \/ ShutdownStart
    \/ ShutdownLock
    \/ ShutdownRelease
    \/ Crash

PersistSpec == PersistInit /\ [][PersistNext]_vars

-----------------------------------------------------------------------------
(* ConcSpec: two clients call put_node for the same node of the user level  *)
(* at the same time, each in a thread of its own.  pc[c] is the position of *)
(* client c in put_node and holds the locals ts and current of              *)
(* _bump_version; hist holds v0, the version number of the node before the  *)
(* calls, the calls in the order in which they left the lock, and whether   *)
(* one call was made while the other was in progress.                       *)

Clients == {"s1", "s2"}

\* The arguments of client c's call.
ClientInput(c) == [gist |-> IF c = "s1" THEN "g" ELSE "gggg", touches |-> <<>>, notes |-> <<>>]

ConcInit ==
    /\ now = 0
    /\ sessions = EmptyDict
    /\ issued = {}
    /\ \E v0 \in {0, 1} :
          /\ nodes = [L \in Levels |-> IF L = "user" /\ v0 = 1
                                       THEN <<NewNode("a", SyncNodeInput)>> ELSE <<>>]
          /\ versions = [L \in Levels |-> IF L = "user" /\ v0 = 1
                            THEN DictSet(EmptyDict, version_key_node("a"),
                                         [v |-> 1, ts |-> 0, session |-> NoSession])
                            ELSE EmptyDict]
          /\ hist = [v0 |-> v0, calls |-> <<>>, overlap |-> FALSE]
    /\ edges = [L \in Levels |-> <<>>]
    /\ dirty = [L \in Levels |-> FALSE]
    /\ ops = 0
    /\ last = [op |-> "init"]
    /\ disk = EmptyDict
    /\ running = TRUE
    /\ lock = NoThread
    /\ pc = [c \in Clients |-> [at |-> "idle"]]
    /\ backups = EmptyDict

\* Client c calls put_node("user", "a", ...): validate_level passes and the
\* thread comes to "with self.lock".
Call(c) ==
    /\ pc[c].at = "idle"
    /\ pc' = [pc EXCEPT ![c] = [at |-> "acquire"]]
    /\ hist' = [hist EXCEPT !.overlap =
                   @ \/ \E d \in Clients \ {c} : pc[d].at \notin {"idle", "done"}]
    /\ UNCHANGED <<now, sessions, issued, nodes, edges, versions, dirty, ops, last,
                   disk, running, lock, backups>>

\* with self.lock
Acquire(c) ==
    /\ pc[c].at = "acquire"
    /\ lock_free(lock)
    /\ lock' = c
    /\ pc' = [pc EXCEPT ![c] = [at |-> "store"]]
    /\ UNCHANGED <<now, sessions, issued, nodes, edges, versions, dirty, ops, last,
                   disk, running, hist, backups>>

\* nodes[node_id] = node
Store(c) ==
    /\ pc[c].at = "store"
    /\ nodes' = [nodes EXCEPT !["user"] = NodesSet(@, "a", NewNode("a", ClientInput(c)))]
    /\ pc' = [pc EXCEPT ![c] = [at |-> "bump"]]
    /\ UNCHANGED <<now, sessions, issued, edges, versions, dirty, ops, last,
                   disk, running, lock, hist, backups>>

\* _bump_version: ts = time.time() and current = self._versions[level].get(key, {"v": 0})
BumpRead(c) ==
    /\ pc[c].at = "bump"
    /\ pc' = [pc EXCEPT ![c] = [at |-> "write", ts |-> now,
                                current |-> DictGet(versions["user"], version_key_node("a"),
                                                    [v |-> 0])]]
    /\ UNCHANGED <<now, sessions, issued, nodes, edges, versions, dirty, ops, last,
                   disk, running, lock, hist, backups>>

\* _bump_version stores new_ver; put_node sets the dirty flag, leaves the lock
\* and returns.
BumpWrite(c) ==
    /\ pc[c].at = "write"
    /\ versions' = [versions EXCEPT !["user"] =
                       DictSet(@, version_key_node("a"),
                               [v |-> pc[c].current.v + 1, ts |-> pc[c].ts, session |-> c])]
    /\ dirty' = [dirty EXCEPT !["user"] = TRUE]
    /\ lock' = NoThread
    /\ pc' = [pc EXCEPT ![c] = [at |-> "done"]]
    /\ hist' = [hist EXCEPT !.calls = Append(@, [client |-> c, ts |-> pc[c].ts])]
    /\ UNCHANGED <<now, sessions, issued, nodes, edges, ops, last, disk, running, backups>>

ConcNext ==
    \/ Advance /\ UNCHANGED rest
    \/ \E c \in Clients : Call(c)
    \/ \E c \in Clients : Acquire(c)
    \/ \E c \in Clients : Store(c)
    \/ \E c \in Clients : BumpRead(c)
    \/ \E c \in Clients : BumpWrite(c)

ConcSpec == ConcInit /\ [][ConcNext]_vars

-----------------------------------------------------------------------------
(* SessSpec: the session table of the multi-project server and the two      *)
(* threads that use it.  "handler" is the thread that serves the tool       *)
(* calls and runs kg_register_session; "worker" runs _periodic_save, whose  *)
(* tick ends with cleanup_expired.  pc[t] holds the locals of the call      *)
(* thread t is in: session_id and ts of register; current_time, the size    *)
(* the table had when the iteration began, the keys seen and the list       *)
(* expired of cleanup_expired.                                              *)

SessInit ==
    /\ now = 0
    /\ sessions = EmptyDict
    /\ issued = {}
    /\ nodes = [k \in {"user"} |-> <<>>]
    /\ edges = [k \in {"user"} |-> <<>>]
    /\ versions = [k \in {"user"} |-> EmptyDict]
    /\ dirty = [k \in {"user"} |-> FALSE]
    /\ ops = 0
    /\ last = [op |-> "init"]
    /\ disk = EmptyDict
    /\ running = TRUE
    /\ lock = NoThread
    /\ hist = EmptyDict
    /\ backups = EmptyDict
    /\ pc = [t \in {"worker", "handler"} |->
                IF t = "worker" THEN [at |-> "sleep"] ELSE [at |-> "idle"]]

\* kg_register_session calls session_manager.register, which draws the id and
\* reads the clock.
HandlerRegister(session_id) ==
    /\ pc["handler"].at = "idle"
    /\ session_id \notin issued
    /\ issued' = issued \cup {session_id}
    /\ pc' = [pc EXCEPT !["handler"] = [at |-> "store", session_id |-> session_id, ts |-> now]]
    /\ UNCHANGED <<now, sessions, nodes, edges, versions, dirty, ops, last,
                   disk, running, lock, hist, backups>>

\* register: self._sessions[session_id] = {...}, and the return.
HandlerStore ==
    /\ pc["handler"].at = "store"
    /\ sessions' = DictSet(sessions, pc["handler"].session_id,
                           [start_ts |-> pc["handler"].ts, project_path |-> NoPath,
                            last_activity |-> pc["handler"].ts])
    /\ last' = [op |-> "register_session", session |-> pc["handler"].session_id,
                start_ts |-> pc["handler"].ts, lock |-> lock, worker |-> pc["worker"].at]
    /\ pc' = [pc EXCEPT !["handler"] = [at |-> "idle"]]
    /\ UNCHANGED <<now, issued, nodes, edges, versions, dirty, ops,
                   disk, running, lock, hist, backups>>

\* The tick up to cleanup_expired: under the lock, maintenance and save of
\* every loaded graph; then current_time = time.time() and the iteration over
\* self._sessions.items() begins.
WorkerTickStart ==
    /\ pc["worker"].at = "sleep"
    /\ lock_free(lock)
    /\ lock' = "worker"
    /\ \E m \in {[k \in DOMAIN nodes |->
                     http_maintain(nodes[k], edges[k], versions[k], dirty[k], now)]} :
       \E save_ok \in {f \in [DOMAIN nodes -> BOOLEAN] :
                          \A k \in DOMAIN nodes : ~m[k].dirty => f[k]} :
           /\ nodes' = [k \in DOMAIN nodes |-> m[k].nodes]
           /\ edges' = [k \in DOMAIN nodes |-> m[k].edges]
           /\ dirty' = [k \in DOMAIN nodes |-> m[k].dirty /\ ~save_ok[k]]
    /\ pc' = [pc EXCEPT !["worker"] =
                 [at |-> "scan", current_time |-> now, size |-> Cardinality(DOMAIN sessions),
                  seen |-> {}, expired |-> {}]]
    /\ UNCHANGED <<now, sessions, issued, versions, ops, last, disk, running, hist, backups>>

\* One step of the iteration of cleanup_expired.  The dict iterator raises
\* RuntimeError (dictionary changed size during iteration) when the table has
\* not the size it had when the iteration began; nothing catches it, so the
\* lock is released and the thread ends.
WorkerScan ==
    /\ pc["worker"].at = "scan"
    /\ IF Cardinality(DOMAIN sessions) # pc["worker"].size
       THEN /\ pc' = [pc EXCEPT !["worker"] = [at |-> "dead"]]
            /\ lock' = NoThread
       ELSE /\ UNCHANGED lock
            /\ IF pc["worker"].seen = DOMAIN sessions
               THEN pc' = [pc EXCEPT !["worker"] =
                              [at |-> "delete", expired |-> pc["worker"].expired]]
               ELSE \E sid \in (DOMAIN sessions) \ pc["worker"].seen :
                       pc' = [pc EXCEPT !["worker"].seen = @ \cup {sid},
                                        !["worker"].expired =
                                            IF pc["worker"].current_time - sessions[sid].last_activity
                                                   > SESSION_TTL_SECONDS
                                            THEN @ \cup {sid} ELSE @]
    /\ UNCHANGED <<now, sessions, issued, nodes, edges, versions, dirty, ops, last,
                   disk, running, hist, backups>>

\* for sid in expired: del self._sessions[sid]; the end of the with block.
WorkerDelete ==
    /\ pc["worker"].at = "delete"
    /\ sessions' = [sid \in (DOMAIN sessions) \ pc["worker"].expired |-> sessions[sid]]
    /\ lock' = NoThread
    /\ pc' = [pc EXCEPT !["worker"] = [at |-> "sleep"]]
    /\ UNCHANGED <<now, issued, nodes, edges, versions, dirty, ops, last,
                   disk, running, hist, backups>>

SessNext ==
    \/ Advance /\ UNCHANGED rest
    \/ \E sid \in SessionIds : HandlerRegister(sid)
    \/ HandlerStore
    \/ WorkerTickStart
    \/ WorkerScan
    \/ WorkerDelete

SessSpec == SessInit /\ [][SessNext]_vars

-----------------------------------------------------------------------------
(* BackupSpec: the backup files of one graph file.  In this specification   *)
(* now counts seconds.  backups holds the modification times of the files:  *)
(* main is the graph file and marker the .last_backup file (NoFile when     *)
(* there is none); recent, daily and weekly are the tiers, recent[i] being  *)
(* the file .json.bak.i and so on.  shutil.copy2 gives the copy the         *)
(* modification time of its source.                                         *)

MAX_RECENT_BACKUPS == 3
MAX_DAILY_BACKUPS == 7
MAX_WEEKLY_BACKUPS == 4
BACKUP_INTERVAL_SECONDS == 3600
SECONDS_PER_DAY == 86400

\* The clock stops this many backup intervals after the start.
MaxHours == 27

NoFile == 0 - 1

\* The shift loop of a tier and the copy of source to its first file.
shift_in(tier, source, max) ==
    <<source>> \o SubSeq(tier, 1, IF Len(tier) < max THEN Len(tier) ELSE max - 1)

\* _promote_to_weekly(source, current_time)
promote_to_weekly(b, source, current_time) ==
    IF b.weekly # <<>> /\ current_time - b.weekly[1] < 7 * SECONDS_PER_DAY
    THEN b
    ELSE [b EXCEPT !.weekly = shift_in(@, source, MAX_WEEKLY_BACKUPS)]

\* _promote_to_daily(source, current_time)
promote_to_daily(b, source, current_time) ==
    IF b.daily # <<>> /\ current_time - b.daily[1] < SECONDS_PER_DAY
    THEN b
    ELSE LET w == IF Len(b.daily) = MAX_DAILY_BACKUPS
                  THEN promote_to_weekly(b, b.daily[MAX_DAILY_BACKUPS], current_time)
                  ELSE b
         IN  [w EXCEPT !.daily = shift_in(@, source, MAX_DAILY_BACKUPS)]

\* _rotate_backups
rotate_backups(b, current_time) ==
    IF b.main = NoFile THEN b
    ELSE LET d == IF Len(b.recent) = MAX_RECENT_BACKUPS
                  THEN promote_to_daily(b, b.recent[MAX_RECENT_BACKUPS], current_time)
                  ELSE b
         IN  [d EXCEPT !.recent = shift_in(@, b.main, MAX_RECENT_BACKUPS)]

\* maybe_backup without the test of the marker's age.
maybe_backup_no_gate(b, current_time) ==
    IF b.main = NoFile THEN b
    ELSE [rotate_backups(b, current_time) EXCEPT !.marker = current_time]

\* maybe_backup
maybe_backup(b, current_time) ==
    IF b.main = NoFile THEN b
    ELSE IF b.marker # NoFile /\ current_time - b.marker < BACKUP_INTERVAL_SECONDS THEN b
    ELSE [rotate_backups(b, current_time) EXCEPT !.marker = current_time]

\* The files after a save in every hour from hour 0 to hour 147: the daily
\* tier is full and its first file is 21 hours old.
AfterAWeek ==
    [main |-> 147 * 3600, marker |-> 147 * 3600,
     recent |-> <<147 * 3600, 146 * 3600, 145 * 3600>>,
     daily |-> [i \in 1..MAX_DAILY_BACKUPS |-> (MAX_DAILY_BACKUPS - i) * 21 * 3600],
     weekly |-> <<>>]

\* The process starts in an empty directory, or over the files of an earlier
\* run.  hist is the time of the start.
BackupInit ==
    /\ backups \in {[main |-> NoFile, marker |-> NoFile,
                      recent |-> <<>>, daily |-> <<>>, weekly |-> <<>>],
                     AfterAWeek}
    /\ now = IF backups.main = NoFile THEN 0 ELSE backups.main
    /\ hist = now
    /\ sessions = EmptyDict
    /\ issued = {}
    /\ nodes = [L \in Levels |-> <<>>]
    /\ edges = [L \in Levels |-> <<>>]
    /\ versions = [L \in Levels |-> EmptyDict]
    /\ dirty = [L \in Levels |-> FALSE]
    /\ ops = 0
    /\ last = [op |-> "init"]
    /\ disk = EmptyDict
    /\ running = TRUE
    /\ lock = NoThread
    /\ pc = EmptyDict

\* Time passes: one backup interval.
HourPasses ==
    /\ now < hist + MaxHours * BACKUP_INTERVAL_SECONDS
    /\ now' = now + BACKUP_INTERVAL_SECONDS
    /\ UNCHANGED <<sessions, issued, nodes, edges, versions, dirty, ops, last,
                   disk, running, lock, pc, hist, backups>>

\* _save_to_disk with a save that succeeds: the graph file is replaced by a
\* file written now, and maybe_backup runs.
SaveToDisk ==
    /\ backups' = maybe_backup([backups EXCEPT !.main = now], now)
    /\ last' = [op |-> "save", backup |-> backups'.marker = now /\ backups.marker # now]
    /\ UNCHANGED <<now, sessions, issued, nodes, edges, versions, dirty, ops,
                   disk, running, lock, pc, hist>>

\* _save_to_disk with a save that fails: the graph file stays as it is and
\* maybe_backup is not called.
SaveFailed ==
    /\ last' = [op |-> "save_failed"]
    /\ UNCHANGED <<now, sessions, issued, nodes, edges, versions, dirty, ops,
                   disk, running, lock, pc, hist, backups>>

BackupNext ==
    \/ HourPasses
    \/ SaveToDisk
    \/ SaveFailed

BackupSpec == BackupInit /\ [][BackupNext]_vars

-----------------------------------------------------------------------------
(* Properties of the single-project store, checked under Spec.              *)

\* The version ts of a node, as the scorer reads it.
NodeTs(L, id) == versions[L][version_key_node(id)].ts

ReadIds(L) == {read[L].nodes[i]["id"] : i \in 1..Len(read[L].nodes)}

\* C1 (put-then-read round trip): right after put_node(L, id, g) has returned,
\* read()[L].nodes holds exactly one entry with that id, and its gist is g.
C1_PutThenRead ==
    last.op = "put_node" =>
        LET listed == read[last.level].nodes
            hits == {i \in 1..Len(listed) : listed[i]["id"] = last.id}
        IN  /\ Cardinality(hits) = 1
            /\ \A i \in hits : listed[i]["gist"] = last.in.gist

\* A put_node that updated an active node of a level holding another node too.
C1_Witness ==
    /\ last.op = "put_node"
    /\ last.action = "updated"
    /\ ~is_archived(last.before)
    /\ Len(read[last.level].nodes) >= 2

\* C2 (cascade on delete): right after delete_node(L, id) the level holds no node
\* id, no edge with id as an endpoint, no version record node:<id> and no version
\* record of an edge with id as an endpoint.  delete_node is one step of the
\* store (it runs under the lock), so no state in between exists.
C2_CascadeOnDelete ==
    last.op = "delete_node" =>
        LET L == last.level
            id == last.id
        IN  /\ id \notin NodeIdsOf(nodes[L])
            /\ \A i \in 1..Len(edges[L]) :
                  edges[L][i]["from"] # id /\ edges[L][i]["to"] # id
            /\ version_key_node(id) \notin DOMAIN versions[L]
            /\ \A f \in NodeIds, t \in NodeIds, r \in Rels :
                  (f = id \/ t = id) =>
                      version_key_edge(f, t, r) \notin DOMAIN versions[L]

\* A delete_node that took an edge of the node with it.
C2_Witness == last.op = "delete_node" /\ last.edges_removed >= 1

\* C3 as stated (put_node does not clear archived): a node that is archived
\* before put_node is still archived, and absent from read, after it.
C3_PutNodeKeepsArchived ==
    (last.op = "put_node" /\ is_archived(last.before)) =>
        /\ is_archived(NodeOf(nodes[last.level], last.id))
        /\ last.id \notin ReadIds(last.level)

\* C3 as amended (put_node revives): a node that is archived before put_node
\* carries neither the archived flag nor an orphan timestamp after it, and read
\* lists it; no recall is needed.
C3_PutNodeRevives ==
    (last.op = "put_node" /\ is_archived(last.before)) =>
        LET node == NodeOf(nodes[last.level], last.id)
        IN  /\ "_archived" \notin DOMAIN node
            /\ "_orphaned_ts" \notin DOMAIN node
            /\ last.id \in ReadIds(last.level)

\* A put_node on a node that was archived and marked as an orphan.
C3_Witness ==
    /\ last.op = "put_node"
    /\ is_archived(last.before)
    /\ "_orphaned_ts" \in DOMAIN last.before

\* C4 (read filter): read lists, for each level, exactly the nodes that are not
\* archived and exactly the edges with at least one endpoint that is a present,
\* non-archived node of the level, each once.
C4_ReadFilter ==
    \A L \in Levels :
        LET flagged(n) == "_archived" \in DOMAIN n /\ n["_archived"] = TRUE
            active(id) == \E n \in Range(nodes[L]) : n["id"] = id /\ ~flagged(n)
            r == read[L]
        IN  /\ Range(r.nodes) = {n \in Range(nodes[L]) : ~flagged(n)}
            /\ Cardinality(Range(r.nodes)) = Len(r.nodes)
            /\ Range(r.edges) =
                   {e \in Range(edges[L]) : active(e["from"]) \/ active(e["to"])}
            /\ Cardinality(Range(r.edges)) = Len(r.edges)

\* A level with an archived node, where read shows an edge from an active node to
\* an archived one.
C4_Witness ==
    \E L \in Levels :
        \E e \in Range(read[L].edges) :
            \E n \in Range(nodes[L]) :
                n["id"] \in {e["from"], e["to"]} /\ is_archived(n)

\* C9 (grace protection): a node with version ts > now - grace_period is not in
\* the output of score_all, and compact_if_needed does not archive it.
C9_GraceProtection ==
    \A L \in Levels :
        LET scores == score_all(nodes[L], edges[L], versions[L], now)
            c == compact_if_needed(nodes[L], edges[L], versions[L], now)
            in_grace(id) == NodeTs(L, id) > now - grace_period_days * DAY
        IN  /\ \A i \in 1..Len(scores) : ~in_grace(scores[i].id)
            /\ \A i \in 1..Len(c.archived) : ~in_grace(c.archived[i])
            /\ \A n \in Range(c.nodes) :
                  (is_archived(n) /\ in_grace(n["id"])) => n \in Range(nodes[L])

\* The tick has archived a node while a node in its grace period stays active in
\* a level that is still over the target.
C9_Witness ==
    /\ last.op = "tick"
    /\ \E L \in Levels :
          /\ last.archived[L] # <<>>
          /\ estimate_graph(nodes[L], edges[L]) > compaction_target
          /\ \E n \in Range(nodes[L]) :
                ~is_archived(n) /\ NodeTs(L, n["id"]) > now - grace_period_days * DAY

\* C10 as stated (compaction convergence): when compact_if_needed returns, the
\* estimate of the graph is at most 0.9 x max_tokens, or no node is left that is
\* neither archived nor in its grace period.
C10_Convergence ==
    \A L \in Levels :
        LET c == compact_if_needed(nodes[L], edges[L], versions[L], now)
        IN  \/ 10 * estimate_graph(c.nodes, edges[L]) <= 9 * max_tokens
            \/ eligible_nodes(c.nodes, edges[L], versions[L], now) = <<>>

\* C10 as amended: when compact_if_needed returns, the estimate at entry was at
\* most max_tokens and nothing was archived, or the estimate is now at most
\* 0.9 x max_tokens, or no node is left that is neither archived nor in its
\* grace period.
C10_ConvergenceOverBudget ==
    \A L \in Levels :
        LET c == compact_if_needed(nodes[L], edges[L], versions[L], now)
        IN  \/ /\ estimate_graph(nodes[L], edges[L]) <= max_tokens
               /\ c.archived = <<>>
               /\ c.nodes = nodes[L]
            \/ 10 * estimate_graph(c.nodes, edges[L]) <= 9 * max_tokens
            \/ eligible_nodes(c.nodes, edges[L], versions[L], now) = <<>>

\* The tick has archived one node of a level and stopped, the level being under
\* the target with a node past its grace period still active.
C10_Witness ==
    /\ last.op = "tick"
    /\ \E L \in Levels :
          /\ last.archived[L] # <<>>
          /\ 10 * estimate_graph(nodes[L], edges[L]) <= 9 * max_tokens
          /\ eligible_nodes(nodes[L], edges[L], versions[L], now) # <<>>

\* C12 (recall post-state): a successful recall(L, id) leaves the node not
\* archived and without orphan timestamp, its version v one higher and its
\* version ts at the time of the recall; and no compaction, at the recall or
\* later, archives a node whose version ts is less than the grace period back,
\* so the recalled node is not archived again within the grace period, over
\* budget or not.
C12_RecallPostState ==
    [][/\ \A c \in NodeRefs :
              (/\ last'.op = "recall"
               /\ Recall(c.level, c.id, NoSession)
               /\ recall_error(nodes[c.level], c.id) = "none") =>
                  LET key == version_key_node(c.id)
                      node == NodeOf(nodes'[c.level], c.id)
                  IN  /\ "_archived" \notin DOMAIN node
                      /\ "_orphaned_ts" \notin DOMAIN node
                      /\ versions'[c.level][key].v = versions[c.level][key].v + 1
                      /\ versions'[c.level][key].ts = now
                      /\ \A t \in now..MaxTime :
                            t - now < grace_period_days * DAY =>
                                \A i \in 1..Len(nodes'[c.level]) :
                                    nodes'[c.level][i]["id"] = c.id =>
                                        ~is_archived(compact_if_needed(
                                            nodes'[c.level], edges'[c.level],
                                            versions'[c.level], t).nodes[i])
       /\ last'.op = "tick" =>
              \A L \in Levels, id \in NodeIds :
                  (/\ id \in active_ids(nodes[L])
                   /\ id \in NodeIdsOf(nodes'[L])
                   /\ is_archived(NodeOf(nodes'[L], id)))
                      => now - NodeTs(L, id) >= grace_period_days * DAY]_vars

\* A node has been recalled into a level that is over budget with it.
C12_Witness ==
    /\ last.op = "recall"
    /\ last.ts = now
    /\ last.id \in active_ids(nodes[last.level])
    /\ estimate_graph(nodes[last.level], edges[last.level]) > max_tokens

-----------------------------------------------------------------------------
(* Properties of sessions and sync, checked under SyncSpec.                 *)

NodeFields == {"id", "gist", "touches", "notes"}
EdgeFields == {"from", "to", "rel", "notes"}

\* What a client sees of one level of a read or sync result.
PublicView(g) ==
    /\ DOMAIN g = {"nodes", "edges"}
    /\ \A n \in Range(g.nodes) : DOMAIN n \subseteq NodeFields
    /\ \A e \in Range(g.edges) : DOMAIN e \subseteq EdgeFields

\* How often sync(s) lists node id of level L.
SyncCount(s, L, id) ==
    LET listed == kg_sync(s).changes[L].nodes
    IN  Cardinality({i \in 1..Len(listed) : listed[i]["id"] = id})

\* total_changes of sync(s) is the number of node and edge changes it returns.
TotalIsCount(s) ==
    LET r == kg_sync(s)
    IN  r.total_changes =
            Len(r.changes["user"].nodes) + Len(r.changes["user"].edges)
                + Len(r.changes["project"].nodes) + Len(r.changes["project"].edges)

\* C5 (no internal fields): no node that read or sync returns carries _archived
\* or _orphaned_ts, and no version record (v, ts, session) is part of a result.
C5_NoInternalFields ==
    /\ \A L \in Levels : PublicView(read[L])
    /\ \A s \in DOMAIN sessions, own \in BOOLEAN :
          LET r == sync(s, own)
          IN  /\ DOMAIN r = {"since_ts", "changes", "total_changes"}
              /\ \A L \in Levels : PublicView(r.changes[L])

\* A node that was archived and marked as an orphan has been recalled, and read
\* and a registered session's sync list it.
C5_Witness ==
    /\ last.op = "recall"
    /\ "_orphaned_ts" \in DOMAIN last.before
    /\ last.id \in ReadIds(last.level)
    /\ \E s \in DOMAIN sessions : SyncCount(s, last.level, last.id) = 1

\* C6 as stated (sync excludes own writes): with s and s2 registered, right after
\* put_node(L, id, g, session_id = s) sync(s) lists no change for id; right after
\* the same call with session_id = s2 # s, sync(s) lists node id exactly once;
\* total_changes is the number of changes returned.
C6_SyncExcludesOwn ==
    \A s \in DOMAIN sessions :
        /\ TotalIsCount(s)
        /\ (last.op = "put_node" /\ last.session \in DOMAIN sessions) =>
              SyncCount(s, last.level, last.id) = IF last.session = s THEN 0 ELSE 1

\* C6 as amended: the same, where the write of s2 is listed once when its ts is
\* later than start_ts(s), and not at all when the clock gave the write the
\* reading it gave the registration of s.
C6_SyncExcludesOwnLaterWrites ==
    \A s \in DOMAIN sessions :
        /\ TotalIsCount(s)
        /\ (last.op = "put_node" /\ last.session \in DOMAIN sessions) =>
              SyncCount(s, last.level, last.id) =
                  IF last.session # s /\ last.ts > sessions[s].start_ts THEN 1 ELSE 0

\* Two sessions are registered and the one has just written, not for the first
\* time, a node after the other registered.
C6_Witness ==
    /\ last.op = "put_node"
    /\ last.action = "updated"
    /\ last.session \in DOMAIN sessions
    /\ \E s \in DOMAIN sessions : last.session # s /\ last.ts > sessions[s].start_ts

\* The version record the last write left is later than start_ts(s).
VersionAfter(L, key, s) ==
    key \in DOMAIN versions[L] /\ versions[L][key].ts > sessions[s].start_ts

\* C7 as stated (sync observes every write): for a registered session s, every
\* node and edge that read shows and whose last write has ts > start_ts(s) is in
\* sync(s), whichever client wrote it.
C7_SyncObservesEveryWrite ==
    \A s \in DOMAIN sessions, L \in Levels :
        LET r == kg_sync(s).changes[L]
        IN  /\ \A n \in Range(read[L].nodes) :
                  VersionAfter(L, version_key_node(n["id"]), s) => n \in Range(r.nodes)
            /\ \A e \in Range(read[L].edges) :
                  VersionAfter(L, version_key_edge(e["from"], e["to"], e["rel"]), s)
                      => e \in Range(r.edges)

\* The last write was made under a session id other than s.
WrittenByOther(L, key, s) == versions[L][key].session # s

\* C7 as amended: for a registered session s, every node and edge that read
\* shows, whose last write has ts > start_ts(s) and was made under another
\* session id than s, is in sync(s); and the write that has just completed
\* (put_node, put_edge or recall) after s registered, under another session id,
\* is in sync(s) while read shows what it wrote.
C7_SyncObservesOthersWrites ==
    \A s \in DOMAIN sessions :
        /\ \A L \in Levels :
              LET r == kg_sync(s).changes[L]
              IN  /\ \A n \in Range(read[L].nodes) :
                        LET key == version_key_node(n["id"])
                        IN  (VersionAfter(L, key, s) /\ WrittenByOther(L, key, s))
                                => n \in Range(r.nodes)
                  /\ \A e \in Range(read[L].edges) :
                        LET key == version_key_edge(e["from"], e["to"], e["rel"])
                        IN  (VersionAfter(L, key, s) /\ WrittenByOther(L, key, s))
                                => e \in Range(r.edges)
        /\ (/\ last.op \in {"put_node", "recall"}
            /\ last.session # s
            /\ last.ts > sessions[s].start_ts)
              => SyncCount(s, last.level, last.id) = 1
        /\ (/\ last.op = "put_edge"
            /\ last.session # s
            /\ last.ts > sessions[s].start_ts
            /\ last.edge \in Range(read[last.level].edges))
              => last.edge \in Range(kg_sync(s).changes[last.level].edges)

\* A session sees in its sync the node another session has just recalled, and an
\* edge written under its own id is left out.
C7_Witness ==
    /\ last.op = "recall"
    /\ \E s \in DOMAIN sessions :
          /\ last.session # s
          /\ last.ts > sessions[s].start_ts
          /\ SyncCount(s, last.level, last.id) = 1
          /\ \E e \in Range(read[last.level].edges) :
                e \notin Range(kg_sync(s).changes[last.level].edges)

\* C8, single-project store: sync with a session id that is not in the session
\* table (never registered, or dropped by cleanup_expired) raises
\* SessionNotFoundError and returns no changes.
C8_UnknownSessionSingleStore ==
    \A sid \in SessionIds \cup {NoSession} :
        sid \notin DOMAIN sessions =>
            \A own \in BOOLEAN : sync(sid, own) = [error |-> "unknown session"]

-----------------------------------------------------------------------------
(* Properties of the multi-project store, checked under MSpec.              *)

\* C8 (sync with an unknown session fails), multi-project store: for a session
\* id that session cleanup has dropped from the session table, the kg_sync tool
\* and GET /api/graph/sync fail with the unknown-session error and return no
\* changes.  (An id that was never registered is answered in the same way.)
C8_UnknownSessionFails ==
    \A sid \in issued :
        sid \notin DOMAIN sessions =>
            /\ http_kg_sync(sid) = [error |-> "unknown session"]
            /\ \A t \in 0..MaxTime : sync_graph(sid, t) = [error |-> "unknown session"]

-----------------------------------------------------------------------------
(* Properties of the orphan pruner, checked under OrphanSpec.               *)

\* This step removes node id from level L.
removed(L, id) == id \in NodeIdsOf(nodes[L]) /\ id \notin NodeIdsOf(nodes'[L])

\* C11 as stated (orphan grace law): a node that the orphan pruner deletes has
\* been archived and without an edge to or from an active node, without a break,
\* for at least orphan_grace_days; any reconnection in between, even a
\* temporary one, has reset the timer.
C11_OrphanGraceLaw ==
    [][Tick =>
          \A L \in Levels, id \in OrphanNodeIds :
              removed(L, id) =>
                  /\ hist[L][id] # Never
                  /\ now - hist[L][id] >= orphan_grace_days * DAY]_vars

\* C11 as amended: the timer is read and reset by maintenance ticks only.  A tick
\* deletes an archived node exactly when it finds the node without an active
\* neighbour and with an orphan timestamp more than orphan_grace_days old; it
\* sets the timestamp of an archived node it finds without an active neighbour
\* and without a timestamp, and clears the timestamp of one it finds connected.
C11_OrphanGraceAtTicks ==
    [][Tick =>
          \A L \in Levels, id \in OrphanNodeIds :
              id \in NodeIdsOf(nodes[L]) =>
                  LET node == NodeOf(nodes[L], id)
                      active_now == {n["id"] : n \in {m \in Range(nodes'[L]) :
                                        ~("_archived" \in DOMAIN m /\ m["_archived"])}}
                      connected ==
                          \E e \in Range(edges[L]) :
                              \/ e["from"] = id /\ e["to"] \in active_now
                              \/ e["to"] = id /\ e["from"] \in active_now
                      due == /\ "_archived" \in DOMAIN node /\ node["_archived"]
                             /\ ~connected
                             /\ "_orphaned_ts" \in DOMAIN node
                             /\ now - node["_orphaned_ts"] > orphan_grace_days * DAY
                  IN  /\ removed(L, id) <=> due
                      /\ (~removed(L, id) /\ is_archived(NodeOf(nodes'[L], id))) =>
                            LET after == NodeOf(nodes'[L], id)
                            IN  IF connected
                                THEN "_orphaned_ts" \notin DOMAIN after
                                ELSE /\ "_orphaned_ts" \in DOMAIN after
                                     /\ after["_orphaned_ts"] =
                                            IF "_orphaned_ts" \in DOMAIN node
                                            THEN node["_orphaned_ts"] ELSE now]_vars

\* A tick has deleted the archived node, and an active node is left in the level.
C11_Witness ==
    /\ last.op = "tick"
    /\ last.deleted["user"] = <<"a">>
    /\ active_ids(nodes["user"]) # {}

-----------------------------------------------------------------------------
(* Properties of saving and shutdown, checked under PersistSpec.            *)

\* The level thread t is saving.
SaveLevel(t) == LEVELS[pc[t].i]

\* What is in memory for level L, as load() returns it.
InMemory(L) == [nodes |-> nodes[L], edges |-> edges[L], versions |-> versions[L]]

\* C13 (atomic save): from the start of a save to its rename the graph file of
\* the level is the document it was before the save, whole; the rename puts the
\* whole new document in its place and a failed save leaves the old one; and a
\* process killed once the temporary file is written and before the rename
\* loads, when it starts again, exactly what the file held before the save.
C13_AtomicSave ==
    [][\A t \in Threads :
          /\ pc[t].at \in SavePositions =>
                /\ disk[SaveLevel(t)]["json"] = pc[t].v0
                /\ disk[SaveLevel(t)]["json"] # Torn
          /\ SaveReplace(t) =>
                disk'[SaveLevel(t)]["json"] =
                    document(nodes[SaveLevel(t)], edges[SaveLevel(t)], versions[SaveLevel(t)])
          /\ SaveFail(t) => disk'[SaveLevel(t)]["json"] = pc[t].v0
          /\ (Crash /\ pc[t].at \in {"fsync", "replace"}) =>
                /\ disk'[SaveLevel(t)]["json"] = pc[t].v0
                /\ nodes'[SaveLevel(t)] = load(pc[t].v0).nodes
                /\ edges'[SaveLevel(t)] = load(pc[t].v0).edges
                /\ versions'[SaveLevel(t)] = load(pc[t].v0).versions]_vars

\* C13 witness: the process was killed between the write of the temporary file
\* and the rename of a save that would have replaced an earlier document, and
\* has started again with that earlier document.
C13_Witness ==
    /\ last.op = "restart"
    /\ \E t \in Threads :
          /\ last.pc[t].at = "replace"
          /\ LET L == LEVELS[last.pc[t].i]
             IN  /\ last.pc[t].v0 \notin {Absent, Torn}
                 /\ disk[L]["tmp"] \notin {Absent, Torn, last.pc[t].v0}
                 /\ disk[L]["json"] = last.pc[t].v0
                 /\ InMemory(L) = load(last.pc[t].v0)
                 /\ nodes[L] # <<>>

\* C14 (save failure is contained and retried): a save that fails during a
\* maintenance tick leaves no temporary file, leaves the graph file, the graph
\* in memory and the versions as they were, and leaves the level's dirty flag
\* set; a tick that comes to a level whose flag is set starts a save of it; and
\* in a running process a dirty flag is cleared only by the rename of a save
\* of that level, which leaves the document of the memory in the graph file.
C14_SaveFailureRetried ==
    [][/\ SaveFail("worker") =>
              /\ disk'[SaveLevel("worker")][temp_path] = Absent
              /\ disk'[SaveLevel("worker")]["json"] = disk[SaveLevel("worker")]["json"]
              /\ nodes' = nodes /\ edges' = edges /\ versions' = versions
              /\ dirty[SaveLevel("worker")] /\ dirty' = dirty
              /\ pc'["worker"] = worker_next(pc["worker"].i)
       /\ (WorkerMaintain /\ pc'["worker"].at # "dead") =>
              (dirty'[SaveLevel("worker")] <=>
                   (pc'["worker"].at = "open" /\ pc'["worker"].i = pc["worker"].i))
       /\ \A L \in Levels : (dirty[L] /\ ~dirty'[L] /\ ~Crash) =>
              /\ SaveReplace("worker")
              /\ SaveLevel("worker") = L
              /\ disk'[L]["json"] = document(nodes'[L], edges'[L], versions'[L])]_vars

\* C14 witness: the save of the first level has failed in the tick that is now
\* at the second level: the flag is still set, the temporary file is gone and
\* the graph file is not the document of the memory.
C14_Witness ==
    /\ pc["worker"].at = "maintain"
    /\ pc["worker"].i = 2
    /\ dirty[LEVELS[1]]
    /\ disk[LEVELS[1]][temp_path] = Absent
    /\ disk[LEVELS[1]]["json"] # document(nodes[LEVELS[1]], edges[LEVELS[1]], versions[LEVELS[1]])
    /\ disk[LEVELS[1]]["json"] # Absent

\* C15 as stated (the maintenance loop never propagates an exception): whatever
\* compact or prune does for a level, the worker goes on to the save of that
\* level and to the other level, and its thread is never ended by an exception.
C15_LoopNeverPropagates ==
    [][WorkerMaintain =>
          /\ pc'["worker"].at # "dead"
          /\ dirty'[SaveLevel("worker")] => pc'["worker"].at = "open"
          /\ ~dirty'[SaveLevel("worker")] => pc'["worker"] = worker_next(pc["worker"].i)]_vars

\* The positions of the worker inside the with block of a tick.
TickPositions == {"maintain", "cleanup"} \cup SavePositions

\* C18 (shutdown flushes): while shutdown saves, it holds the lock and no tick
\* is in progress; it starts a save for exactly the levels whose dirty flag is
\* set; and when it returns after saves that all succeeded, the graph file of
\* every level loads as the graph and versions the memory holds, which no
\* step of the process has changed since shutdown took the lock.
C18_ShutdownFlushes ==
    [][/\ pc["main"].at \in SavePositions \cup {"release"} =>
              /\ lock = "main"
              /\ pc["worker"].at \notin TickPositions
              /\ ~Crash => (nodes' = nodes /\ edges' = edges /\ versions' = versions)
       /\ (ShutdownRelease /\ pc["main"].ok) =>
              /\ pc["main"].flushed = {L \in Levels : dirty[L]}
              /\ \A L \in Levels : load(disk'[L]["json"]) = InMemory(L)]_vars

\* C18 witness: shutdown has returned after saving both levels, each of which
\* holds a node that was not in its graph file when the process started.
C18_Witness ==
    /\ pc["main"].at = "returned"
    /\ pc["main"].ok
    /\ pc["main"].flushed = Levels
    /\ \A L \in Levels :
          /\ "a" \in NodeIdsOf(nodes[L])
          /\ load(disk[L]["json"]) = InMemory(L)

\* C19 as stated (shutdown joins the worker): once shutdown has returned, the
\* worker takes no step other than leaving its loop.
C19_NoTickAfterShutdown ==
    [][(pc["main"].at = "returned" /\ pc'["main"].at = "returned") =>
          (pc'["worker"] = pc["worker"] \/ pc'["worker"].at = "exited")]_vars

-----------------------------------------------------------------------------
(* Properties of concurrent calls, checked under ConcSpec.                  *)

\* Both calls have returned.
BothDone == \A c \in Clients : pc[c].at = "done"

\* Once both calls have returned: the node is the one the call that left the
\* lock last has put, the version carries that call's session and ts, and v
\* has grown by 2.
LastWriterWins ==
    LET final == hist.calls[2]
        ver == versions["user"][version_key_node("a")]
    IN  /\ NodeOf(nodes["user"], "a") = NewNode("a", ClientInput(final.client))
        /\ ver.session = final.client
        /\ ver.ts = final.ts
        /\ ver.v = hist.v0 + 2

\* C16 as stated (concurrent put_node calls serialize): last writer wins, v has
\* grown by exactly 2, and the ts values of the two versions are distinct.
C16_ConcurrentPutsDistinctTs ==
    BothDone => (LastWriterWins /\ hist.calls[1].ts # hist.calls[2].ts)

\* C16 amended: last writer wins, v has grown by exactly 2, and the ts of the
\* call that left the lock last is not smaller than the ts of the other call;
\* the two are equal when the clock gave both calls the same reading.
C16_ConcurrentPutsSerialize ==
    BothDone => (LastWriterWins /\ hist.calls[1].ts <= hist.calls[2].ts)

\* C16 witness: both calls have returned, one was made while the other was in
\* progress, and both versions carry the same ts.
C16_Witness ==
    /\ BothDone
    /\ hist.overlap
    /\ hist.calls[1].ts = hist.calls[2].ts
    /\ hist.calls[1].client = "s2"

-----------------------------------------------------------------------------
(* Properties of the session table, checked under SessSpec.                 *)

\* C17 as stated (the store mutex covers the session table): the thread that
\* registers a session holds the lock while it writes the table, the worker
\* holds it during its cleanup, and so no registration writes the table while
\* a cleanup is in progress.
C17_SessionTableUnderLock ==
    [][/\ HandlerStore => (lock = "handler" /\ pc["worker"].at \notin {"scan", "delete"})
       /\ (WorkerScan \/ WorkerDelete) => lock = "worker"]_vars

-----------------------------------------------------------------------------
(* Properties of the backup tiers, checked under BackupSpec.                *)

\* The modification times of consecutive files of a tier are at least gap
\* apart, the newer file first.
Spaced(tier, gap) == \A i \in 1..(Len(tier) - 1) : tier[i] - tier[i + 1] >= gap

\* "About" a span, read generously: half of it or more.
About(span) == span \div 2

\* C20 as stated (backup tier invariants): the recent tier holds at most 3
\* files, the daily tier at most 7 and the weekly tier at most 4; consecutive
\* daily files are about a day apart or more and consecutive weekly files
\* about seven days apart or more.
C20_BackupTiers ==
    /\ Len(backups.recent) <= MAX_RECENT_BACKUPS
    /\ Len(backups.daily) <= MAX_DAILY_BACKUPS
    /\ Len(backups.weekly) <= MAX_WEEKLY_BACKUPS
    /\ Spaced(backups.daily, About(SECONDS_PER_DAY))
    /\ Spaced(backups.weekly, About(7 * SECONDS_PER_DAY))

\* This step rotates the backups: a file of a tier or the marker changes.
Rotates == backups' # [backups EXCEPT !.main = backups'.main]

\* C21 (backup interval): only a save that succeeded rotates the backups; the
\* rotation leaves the marker with the time of the rotation; the marker
\* changes in no other way; and a rotation happens only when there is no
\* marker or the marker is BACKUP_INTERVAL_SECONDS old or more, so two
\* rotations are never closer than that.  A failed save changes no file.
C21_BackupInterval ==
    [][/\ Rotates =>
              /\ SaveToDisk
              /\ backups'.main = now
              /\ backups'.marker = now
              /\ backups.marker = NoFile \/ now - backups.marker >= BACKUP_INTERVAL_SECONDS
       /\ SaveFailed => backups' = backups
       /\ (SaveToDisk /\ ~Rotates) =>
              (backups.marker # NoFile /\ now - backups.marker < BACKUP_INTERVAL_SECONDS)]_vars

\* C21 witness: a save has rotated the backups exactly one interval after the
\* rotation before it, and in between a save has left the backups alone.
C21_Witness ==
    /\ last.op = "save"
    /\ last.backup
    /\ Len(backups.recent) >= 2
    /\ backups.recent[1] = now
    /\ backups.recent[1] - backups.recent[2] = BACKUP_INTERVAL_SECONDS

-----------------------------------------------------------------------------
(* Further properties of the single-project store, checked under Spec.      *)

\* This step is put_node with the arguments of the put_node before it, and
\* nothing but the passing of time has come between the two.
SamePutAgain(c) ==
    /\ last.op = "put_node"
    /\ last.level = c.level /\ last.id = c.id /\ last.in = c.in
    /\ last.session = NoSession
    /\ PutNode(c.level, c.id, c.in, NoSession)

\* C22 as stated (idempotent upsert): the second of two successive put_node
\* calls with the same arguments leaves nodes and edges as the first left
\* them, leaves v 2 higher than it was before the first, and advances ts.
C22_IdempotentUpsertAdvancesTs ==
    [][\A c \in PutNodeCalls : SamePutAgain(c) =>
          /\ nodes' = nodes /\ edges' = edges
          /\ versions'[c.level][version_key_node(c.id)].v = last.v0 + 2
          /\ versions'[c.level][version_key_node(c.id)].ts > last.ts]_vars

\* C22 amended: as above, but ts becomes the clock reading of the second call,
\* which is later than the first call's only if the clock has moved on.
C22_IdempotentUpsert ==
    [][\A c \in PutNodeCalls : SamePutAgain(c) =>
          /\ nodes' = nodes /\ edges' = edges
          /\ versions'[c.level][version_key_node(c.id)].v = last.v0 + 2
          /\ versions'[c.level][version_key_node(c.id)].ts = now
          /\ now >= last.ts
          /\ versions'[c.level][version_key_node(c.id)].ts > last.ts <=> now > last.ts]_vars

\* C22 witness: a put_node has rewritten a node with the dict it had, at the
\* clock reading of the version it replaced, which was not the node's first.
C22_Witness ==
    /\ last.op = "put_node"
    /\ last.action = "updated"
    /\ last.before = NodeOf(nodes[last.level], last.id)
    /\ last.v0 >= 1
    /\ last.ts = now
    /\ NodeTs(last.level, last.id) = now
    /\ now > 0

-----------------------------------------------------------------------------
(* Further properties of archived nodes, checked under OrphanSpec.          *)

\* What a node holds apart from the pruner's timestamp.
Content(node) == [k \in (DOMAIN node) \ {"_orphaned_ts"} |-> node[k]]

\* C23 (archiving never deletes): an archived node is, after any step, still
\* stored and archived with the content it had, unless the step is a recall,
\* a put_node or a delete_node of that node, or a tick whose pruner deletes
\* it, which it does only if the node carries an orphan timestamp more than
\* orphan_grace_days old.
C23_ArchivedStays ==
    [][\A id \in OrphanNodeIds :
          (id \in NodeIdsOf(nodes["user"]) /\ is_archived(NodeOf(nodes["user"], id))) =>
              \/ /\ id \in NodeIdsOf(nodes'["user"])
                 /\ is_archived(NodeOf(nodes'["user"], id))
                 /\ Content(NodeOf(nodes'["user"], id)) = Content(NodeOf(nodes["user"], id))
              \/ /\ last'.op = "tick"
                 /\ Tick
                 /\ \E i \in 1..Len(last'.deleted["user"]) : last'.deleted["user"][i] = id
                 /\ "_orphaned_ts" \in DOMAIN NodeOf(nodes["user"], id)
                 /\ now - NodeOf(nodes["user"], id)["_orphaned_ts"] > orphan_grace_days * DAY
                 /\ id \notin NodeIdsOf(nodes'["user"])
              \/ /\ last'.op \in {"recall", "put_node", "delete_node"}
                 /\ last'.id = id
                 /\ \/ Recall("user", id, NoSession)
                    \/ PutNode("user", id, SyncNodeInput, NoSession)
                    \/ DeleteNode("user", id)]_vars

\* C23 witness: a tick has archived a node by compaction, and the node that
\* was archived before is still stored and archived.
C23_Witness ==
    /\ last.op = "tick"
    /\ last.archived["user"] # <<>>
    /\ \A id \in OrphanNodeIds :
          id \in NodeIdsOf(nodes["user"]) /\ is_archived(NodeOf(nodes["user"], id))

\* Node id of the user level carries the pruner's timestamp.
Stamped(ns, id) == id \in NodeIdsOf(ns) /\ "_orphaned_ts" \in DOMAIN NodeOf(ns, id)

\* C24 as stated (orphaned_since invariant): in every state, a node that
\* carries the orphan timestamp is archived and no edge joins it to an active
\* node of its level.
C24_StampedOnlyIfCutOff ==
    \A id \in OrphanNodeIds :
        Stamped(nodes["user"], id) => cut_off(nodes["user"], edges["user"], id)

\* C24 amended: in every state a node that carries the orphan timestamp is
\* archived; and in the state a tick leaves, an archived node carries the
\* timestamp exactly if no edge joins it to an active node.  Between ticks
\* the timestamp stays on a node that has got an active neighbour.
C24_StampedAfterTick ==
    [][/\ \A id \in OrphanNodeIds :
              Stamped(nodes["user"], id) => is_archived(NodeOf(nodes["user"], id))
       /\ last'.op = "tick" /\ Tick =>
              \A id \in OrphanNodeIds :
                  (id \in NodeIdsOf(nodes'["user"]) /\ is_archived(NodeOf(nodes'["user"], id))) =>
                      (Stamped(nodes'["user"], id) <=> cut_off(nodes'["user"], edges'["user"], id))
       /\ ~(last'.op \in {"tick", "recall", "put_node"}) =>
              \A id \in OrphanNodeIds : id \in NodeIdsOf(nodes'["user"]) =>
                  (Stamped(nodes'["user"], id) <=> Stamped(nodes["user"], id))]_vars

\* C24 witness: a tick has left an archived node that an edge joins to an
\* active node, and the node carries no timestamp.
C24_Witness ==
    /\ last.op = "tick"
    /\ "a" \in NodeIdsOf(nodes["user"]) /\ is_archived(NodeOf(nodes["user"], "a"))
    /\ "a" \in reachable_ids(nodes["user"], edges["user"])
    /\ ~Stamped(nodes["user"], "a")
    /\ now > 0

(***************************************************************************)
(* The mutators with their outcome: every call of put_node, put_edge,      *)
(* delete_node, delete_edge and recall, with a valid or an invalid level,  *)
(* on a store that has loaded one archived and one active node.  hist      *)
(* holds the last call and what it returned or raised.                     *)
(***************************************************************************)
MutatorCalls ==
    {[op |-> op, level |-> level, id |-> id] :
        op \in MutatorNames, level \in Levels \cup BadLevels, id \in OrphanNodeIds}

\* The edge an edge mutator is called with: from the call's node to node a.
call_edge(c) == [from |-> c.id, to |-> OrphanEdge.to, rel |-> OrphanEdge.rel]

\* What the call returns ("ok", "deleted: false") or the error it raises.
call_outcome(c) ==
    IF ~validate_level(c.level) THEN "invalid level"
    ELSE IF c.op = "delete_node" /\ delete_node_error(nodes[c.level], c.id) # "none"
         THEN delete_node_error(nodes[c.level], c.id)
    ELSE IF c.op = "recall" /\ recall_error(nodes[c.level], c.id) # "none"
         THEN recall_error(nodes[c.level], c.id)
    ELSE IF c.op = "delete_edge" /\ EdgeKey(call_edge(c)) \notin EdgeKeysOf(edges[c.level])
         THEN "deleted: false"
    ELSE "ok"

CallInit ==
    /\ now = 0
    /\ sessions = EmptyDict
    /\ issued = {}
    /\ nodes = [L \in Levels |-> IF L = "user" THEN OrphanLoaded.nodes ELSE <<>>]
    /\ edges = [L \in Levels |-> <<>>]
    /\ versions = [L \in Levels |-> IF L = "user" THEN OrphanLoaded.versions ELSE EmptyDict]
    /\ dirty = [L \in Levels |-> FALSE]
    /\ ops = 0
    /\ last = [op |-> "init"]
    /\ hist = [op |-> "init"]
    /\ disk = EmptyDict
    /\ running = TRUE
    /\ lock = NoThread
    /\ pc = EmptyDict
    /\ backups = EmptyDict

MutatorCall(c) ==
    /\ hist' = [op |-> c.op, level |-> c.level, id |-> c.id, outcome |-> call_outcome(c)]
    /\ IF ~validate_level(c.level)
       THEN UNCHANGED <<now, sessions, issued, nodes, edges, versions, dirty, ops, last>>
       ELSE CASE c.op = "put_node" -> PutNode(c.level, c.id, SyncNodeInput, NoSession)
              [] c.op = "put_edge" ->
                     PutEdge(c.level, call_edge(c).from, call_edge(c).to,
                             call_edge(c).rel, NoSession)
              [] c.op = "delete_node" -> DeleteNode(c.level, c.id)
              [] c.op = "delete_edge" ->
                     DeleteEdge(c.level, call_edge(c).from, call_edge(c).to,
                                call_edge(c).rel)
              [] c.op = "recall" -> Recall(c.level, c.id, NoSession)
    /\ UNCHANGED <<disk, running, lock, pc, backups>>

CallNext ==
    \/ Advance /\ UNCHANGED rest
    \/ \E c \in MutatorCalls : ops < MaxCalls /\ MutatorCall(c)

CallSpec == CallInit /\ [][CallNext]_vars

(***************************************************************************)
(* Properties of the mutators' outcomes, checked under CallSpec            *)
(***************************************************************************)

\* C25: recall(L, id) succeeds exactly when id is stored in level L and is
\* archived; it fails with node-not-found when id is not in the level, and
\* with not-archived when the node is stored but active.  A recall that
\* succeeds leaves the node stored and active.
C25_RecallOutcome ==
    [][(hist' # hist /\ hist'.op = "recall" /\ validate_level(hist'.level)) =>
          LET L == hist'.level
              id == hist'.id
              stored == id \in NodeIdsOf(nodes[L])
              archived == stored /\ "_archived" \in DOMAIN NodeOf(nodes[L], id)
                                 /\ NodeOf(nodes[L], id)._archived = TRUE
          IN  /\ hist'.outcome = "ok" <=> archived
              /\ hist'.outcome = "node not found" <=> ~stored
              /\ hist'.outcome = "not archived" <=> (stored /\ ~archived)
              /\ hist'.outcome = "ok" =>
                    /\ id \in NodeIdsOf(nodes'[L])
                    /\ "_archived" \notin DOMAIN NodeOf(nodes'[L], id)
                    /\ last' = [op |-> "recall", level |-> L, id |-> id,
                                session |-> NoSession, ts |-> now,
                                before |-> NodeOf(nodes[L], id)]
              /\ hist'.outcome # "ok" => UNCHANGED <<nodes, edges, versions, dirty>>]_vars

\* C25 witness: after a recall that succeeded, a second recall of the same
\* node has failed with not-archived.
C25_Witness ==
    /\ hist = [op |-> "recall", level |-> "user", id |-> "a", outcome |-> "not archived"]
    /\ last.op = "recall" /\ last.id = "a"
    /\ "a" \in NodeIdsOf(nodes["user"])

\* C26: a mutator call that fails (level outside {user, project}; delete_node
\* or recall of an id that is not in the level; recall of a node that is not
\* archived) or that is a soft no-op (delete_edge of an absent edge) leaves
\* the nodes, edges, version records and dirty flags of every level
\* unchanged; these are the only calls that fail or do nothing, and every
\* other call marks its level dirty.
C26_FailedCallChangesNothing ==
    [][hist' # hist =>
          LET L == hist'.level
              id == hist'.id
              bad_level == L \notin {"user", "project"}
              missing == ~bad_level /\ id \notin NodeIdsOf(nodes[L])
              active == ~bad_level /\ ~missing /\ ~is_archived(NodeOf(nodes[L], id))
              absent == ~bad_level
                           /\ <<id, OrphanEdge.to, OrphanEdge.rel>> \notin EdgeKeysOf(edges[L])
              fails == \/ bad_level
                       \/ hist'.op \in {"delete_node", "recall"} /\ missing
                       \/ hist'.op = "recall" /\ active
              no_op == hist'.op = "delete_edge" /\ absent
          IN  /\ hist'.outcome = "ok" <=> ~(fails \/ no_op)
              /\ hist'.outcome = "deleted: false" <=> no_op
              /\ (fails \/ no_op) => UNCHANGED <<nodes, edges, versions, dirty>>
              /\ ~(fails \/ no_op) => dirty'[L] /\ ops' = ops + 1]_vars

\* C26 witness: after a put that marked the user level dirty, a delete_edge
\* of an absent edge of the project level has returned deleted: false, and
\* the project level is still clean and empty.
C26_Witness ==
    /\ hist = [op |-> "delete_edge", level |-> "project", id |-> "b",
               outcome |-> "deleted: false"]
    /\ last.op = "put_edge" /\ last.level = "user"
    /\ dirty["user"] /\ ~dirty["project"]
    /\ nodes["project"] = <<>> /\ versions["project"] = EmptyDict

(***************************************************************************)
(* Session expiry                                                          *)
(***************************************************************************)

\* A step of the maintenance tick of the multi-project store: it leaves the
\* clock, the operation count and the record of the last call as they are.
HttpTickStep ==
    /\ last'.op = "tick"
    /\ UNCHANGED <<now, ops, hist, issued>>
    /\ HttpTick

C27_SingleStoreCleanup ==
    [][/\ (last'.op = "tick" /\ Tick) =>
              sessions' =
                  [sid \in {x \in DOMAIN sessions :
                               ~(sessions[x].start_ts < now - SESSION_TTL_SECONDS)}
                      |-> sessions[sid]]
       /\ ~(last'.op = "tick" /\ Tick) =>
              \A sid \in DOMAIN sessions :
                  sid \in DOMAIN sessions' /\ sessions'[sid] = sessions[sid]
       /\ \A sid \in SessionIds :
              (sid \in DOMAIN sessions') <=> is_valid(sessions', sid)]_vars

(***************************************************************************)
(* The mutators of the multi-project store with the outcome of their graph *)
(* key lookup: every call of put_node, put_edge, delete_node, delete_edge  *)
(* and recall_node, on either level, without a session id or under one     *)
(* that may or may not be in the session table.  hist holds the last call  *)
(* and the error its lookup raised.                                        *)
(***************************************************************************)
\* User-level calls carry no session id; project-level calls carry one or none.
HttpCalls ==
    {c \in [op : MutatorNames, level : Levels, id : HttpNodeIds, session : HttpCallers] :
        c.level = "user" => c.session = NoSession}

HttpCallInit ==
    /\ now = 0
    /\ sessions = EmptyDict
    /\ issued = {}
    /\ nodes = [k \in {"user"} |-> <<>>]
    /\ edges = [k \in {"user"} |-> <<>>]
    /\ versions = [k \in {"user"} |-> EmptyDict]
    /\ dirty = [k \in {"user"} |-> FALSE]
    /\ ops = 0
    /\ last = [op |-> "init"]
    /\ hist = [op |-> "init"]
    /\ disk = EmptyDict
    /\ running = TRUE
    /\ lock = NoThread
    /\ pc = EmptyDict
    /\ backups = EmptyDict

HttpMutatorCall(c) ==
    /\ hist' = [op |-> c.op, level |-> c.level, id |-> c.id, session |-> c.session,
                error |-> get_graph_key(sessions, c.level, c.session).error]
    /\ \E e \in HttpEdges :
          CASE c.op = "put_node" -> HttpPutNode(c.level, c.id, [gist |-> "g"], c.session)
            [] c.op = "put_edge" -> HttpPutEdge(c.level, e.from, e.to, e.rel, c.session)
            [] c.op = "delete_node" -> HttpDeleteNode(c.level, c.id, c.session)
            [] c.op = "delete_edge" -> HttpDeleteEdge(c.level, e.from, e.to, e.rel, c.session)
            [] c.op = "recall" -> HttpRecall(c.level, c.id, c.session)
    /\ UNCHANGED <<disk, running, lock, pc, backups>>

HttpCallNext ==
    \/ Advance /\ UNCHANGED rest
    \/ \E s \in HttpSessionIds, path \in ProjectPaths \cup {NoPath} : HttpRegister(s, path)
          /\ UNCHANGED rest
    \/ \E c \in HttpCalls : ops < MaxCalls /\ HttpMutatorCall(c)
    \/ HttpTick /\ UNCHANGED rest

HttpCallSpec == HttpCallInit /\ [][HttpCallNext]_vars

\* C28: in the multi-project store every project-level mutator (put_node,
\* put_edge, delete_node, delete_edge, recall) called without a session id,
\* or with a session id that is not in the session table, fails in the graph
\* key lookup instead of falling back to a default project, and changes no
\* graph, version record, dirty flag or session.
C28_ProjectCallNeedsSession ==
    [][(/\ hist' # hist
        /\ hist'.level = "project"
        /\ (hist'.session = NoSession \/ hist'.session \notin DOMAIN sessions)) =>
          /\ hist'.error = IF hist'.session = NoSession
                            THEN "session_id required" ELSE "unknown session"
          /\ UNCHANGED <<nodes, edges, versions, dirty, sessions, ops, last>>]_vars

\* C28 witness: a project graph with a node is loaded, its session has been
\* discarded, and a delete_node under the discarded session id has failed as
\* an unknown session, the node still being there.
C28_Witness ==
    /\ hist.op = "delete_node" /\ hist.level = "project" /\ hist.error = "unknown session"
    /\ hist.session \in issued /\ hist.session \notin DOMAIN sessions
    /\ \E k \in DOMAIN nodes : k # "user" /\ hist.id \in NodeIdsOf(nodes[k])

(***************************************************************************)
(* Further properties of the multi-project store, checked under MSpec      *)
(***************************************************************************)

\* A node as a reader may see it: not archived, and without the internal
\* fields _archived and _orphaned_ts.
Surfaced(node) ==
    /\ ~is_archived(node)
    /\ "_archived" \notin DOMAIN node
    /\ "_orphaned_ts" \notin DOMAIN node

\* C29: read_graphs and get_sync_diff of the multi-project store surface a
\* node only if it is not archived, an edge only if one of its endpoints is
\* an active node, and never the internal fields _archived and
\* _orphaned_ts, in every state reachable through puts and compaction.
C29_HttpReadView ==
    /\ \A s \in HttpCallers :
          LET g == read_graphs(s)
          IN  \A part \in {g.user, g.project} :
                  /\ \A i \in 1..Len(part.nodes) : Surfaced(part.nodes[i])
                  /\ \A i \in 1..Len(part.edges) :
                        \E j \in 1..Len(part.nodes) :
                            /\ part.nodes[j]["id"] \in {part.edges[i]["from"], part.edges[i]["to"]}
                            /\ ~is_archived(part.nodes[j])
    /\ \A s \in HttpSessionIds, t \in 0..MaxTime :
          LET d == get_sync_diff(s, t)
          IN  \A part \in {d.user, d.project} :
                  \A id \in DOMAIN part.nodes : Surfaced(part.nodes[id])

\* C30: in the multi-project store, after delete_node, after delete_edge and
\* after the orphan pruner has deleted a node, the version records of the
\* removed node and of every removed edge are absent from the in-memory
\* versions of the graph.  Checked under HttpCallSpec, in the state each of
\* these operations leaves.
C30_HttpCascade ==
    /\ last.op = "delete_node" =>
          /\ version_key_node(last.id) \notin DOMAIN versions[last.key]
          /\ \A e \in HttpEdges : (e.from = last.id \/ e.to = last.id) =>
                version_key_edge(e.from, e.to, e.rel) \notin DOMAIN versions[last.key]
    /\ last.op = "delete_edge" =>
          version_key_edge(last.edge[1], last.edge[2], last.edge[3])
              \notin DOMAIN versions[last.key]
    /\ last.op = "tick" =>
          \A k \in DOMAIN last.deleted : \A i \in 1..Len(last.deleted[k]) :
              version_key_node(last.deleted[k][i]) \notin DOMAIN versions[k]

(***************************************************************************)
(* Version records, checked under SyncSpec                                 *)
(***************************************************************************)

\* The version key a write recorded in last went to.
WrittenKey(w) ==
    IF w.op = "put_edge"
    THEN version_key_edge(w.edge.from, w.edge.to, w.edge.rel)
    ELSE version_key_node(w.id)

\* C31: every successful write to a key (put_node, put_edge, recall)
\* increases that key's version v by exactly 1 (to 1 when the key has no
\* record), sets its ts to the current time and its session to the writer,
\* and leaves every other record; and the ts it sets is not earlier than the
\* ts of any write completed before it.
C31_WriteBumpsVersion ==
    [][(ops' = ops + 1 /\ last'.op \in {"put_node", "put_edge", "recall"}) =>
          LET L == last'.level
              K == WrittenKey(last')
              old == IF K \in DOMAIN versions[L] THEN versions[L][K].v ELSE 0
          IN  /\ K \in DOMAIN versions'[L]
              /\ versions'[L][K] = [v |-> old + 1, ts |-> now, session |-> last'.session]
              /\ \A L2 \in Levels : \A k \in DOMAIN versions[L2] :
                    /\ (L2 # L \/ k # K) =>
                          k \in DOMAIN versions'[L2] /\ versions'[L2][k] = versions[L2][k]
                    /\ versions[L2][k].ts <= versions'[L][K].ts]_vars

\* C31 witness: a second session has rewritten, at a later time, a node that
\* another session wrote; its record went from v = 1 to v = 2.
C31_Witness ==
    /\ last.op = "put_node" /\ last.v0 = 1 /\ last.session = "s2" /\ now > 0
    /\ versions[last.level][version_key_node(last.id)] =
           [v |-> 2, ts |-> now, session |-> "s2"]
    /\ \E k \in DOMAIN versions[last.level] : versions[last.level][k].ts < now

(***************************************************************************)
(* Further properties of compaction, checked under OrphanSpec              *)
(***************************************************************************)

\* What a compact run c may have done to the nodes ns: every node is where
\* it was and as it was, but for _archived = True on the nodes of the list
\* returned, which were active before; the list names no node twice.
CompactionFrame(ns, c) ==
    /\ Len(c.nodes) = Len(ns)
    /\ \A i \in 1..Len(ns) :
          IF ns[i]["id"] \in Range(c.archived)
          THEN ~is_archived(ns[i]) /\ c.nodes[i] = DictSet(ns[i], "_archived", TRUE)
          ELSE c.nodes[i] = ns[i]
    /\ \A i \in 1..Len(c.archived) :
          /\ c.archived[i] \in NodeIdsOf(ns)
          /\ \A j \in 1..Len(c.archived) : c.archived[i] = c.archived[j] => i = j

\* C32: a compact run changes nothing except setting archived = true on the
\* nodes it returns: the node ids, every node's gist, notes and touches are
\* as before, and the list returned is exactly the set of nodes whose flag
\* flipped.  The tick that runs it leaves every version record (v, ts,
\* session) of the level as it was, those of the archived nodes included,
\* and adds no edge.
C32_CompactionFrame ==
    [][(last'.op = "tick" /\ Tick) =>
          \A L \in Levels :
              LET c == compact_if_needed(nodes[L], edges[L], versions[L], now)
              IN  /\ CompactionFrame(nodes[L], c)
                  /\ last'.archived[L] = c.archived
                  /\ \A id \in Range(c.archived) :
                        /\ id \in NodeIdsOf(nodes'[L])
                        /\ is_archived(NodeOf(nodes'[L], id))
                        /\ version_key_node(id) \in DOMAIN versions'[L]
                  /\ \A k \in DOMAIN versions'[L] :
                        k \in DOMAIN versions[L] /\ versions'[L][k] = versions[L][k]
                  /\ Range(edges'[L]) \subseteq Range(edges[L])]_vars

\* C32 witness: a tick has archived a node; the node is stored with the
\* version record of its last write, made before the tick.
C32_Witness ==
    /\ last.op = "tick"
    /\ \E L \in Levels :
          /\ last.archived[L] # <<>>
          /\ \A i \in 1..Len(last.archived[L]) :
                LET id == last.archived[L][i]
                IN  /\ id \in NodeIdsOf(nodes[L]) /\ is_archived(NodeOf(nodes[L], id))
                    /\ versions[L][version_key_node(id)].v = 1
                    /\ versions[L][version_key_node(id)].ts < now

(***************************************************************************)
(* Maintenance of a loaded graph: the store starts from a file that holds  *)
(* three active nodes, written at different times and of different sizes,  *)
(* and some edges; then only the clock and the maintenance worker run.     *)
(***************************************************************************)
LoadedEdges ==
    << [from |-> "a", to |-> "b", rel |-> "uses"],
       [from |-> "c", to |-> "a", rel |-> "uses"] >>

\* The graphs a file may hold: nodes a, b, c in this order, each with one of
\* the inputs and a version record of its own time, and the first edges.
LoadedGraphs ==
    {[nodes |-> [i \in 1..3 |-> NewNode(<<"a", "b", "c">>[i], in[i])],
      edges |-> SubSeq(LoadedEdges, 1, n),
      versions |->
          [k \in {version_key_node(id) : id \in {"a", "b", "c"}}
                 \cup {version_key_edge(LoadedEdges[j].from, LoadedEdges[j].to,
                                        LoadedEdges[j].rel) : j \in 1..n} |->
              [v |-> 1,
               ts |-> IF k = "node:a" THEN ts[1] ELSE IF k = "node:b" THEN ts[2]
                      ELSE IF k = "node:c" THEN ts[3] ELSE 0,
               session |-> NoSession]]] :
        in \in [1..3 -> NodeInputs], ts \in [1..3 -> 0..1], n \in 0..Len(LoadedEdges)}

CompactInit ==
    /\ now = 1
    /\ sessions = EmptyDict
    /\ issued = {}
    /\ \E g \in LoadedGraphs :
          /\ nodes = [L \in Levels |-> IF L = "user" THEN g.nodes ELSE <<>>]
          /\ edges = [L \in Levels |-> IF L = "user" THEN g.edges ELSE <<>>]
          /\ versions = [L \in Levels |-> IF L = "user" THEN g.versions ELSE EmptyDict]
    /\ dirty = [L \in Levels |-> FALSE]
    /\ ops = 0
    /\ last = [op |-> "init"]
    /\ disk = EmptyDict
    /\ running = TRUE
    /\ lock = NoThread
    /\ pc = EmptyDict
    /\ hist = EmptyDict
    /\ backups = EmptyDict

CompactNext ==
    \/ Advance /\ UNCHANGED rest
    \/ Tick /\ UNCHANGED rest

CompactSpec == CompactInit /\ [][CompactNext]_vars

(***************************************************************************)
(* The order of archiving, checked under CompactSpec                       *)
(***************************************************************************)

\* Scenario S1: nodes A, B, C with gists of 40, 80 and 40 characters and no
\* notes, last written 8, 8 and 1 days ago; max_tokens = 80 and the default
\* grace period of 7 days.
S1 ==
    [max_tokens |-> 80,
     grace_seconds |-> 7 * DAY,
     now |-> 8 * DAY,
     nodes |-> << [id |-> "A", gist |-> "gggggggggggggggggggggggggggggggggggggggg"],
                  [id |-> "B", gist |-> "gggggggggggggggggggggggggggggggggggggggggggggggggggggggggggggggggggggggggggggggg"],
                  [id |-> "C", gist |-> "gggggggggggggggggggggggggggggggggggggggg"] >>,
     edges |-> <<>>,
     versions |-> ("node:A" :> [v |-> 1, ts |-> 0, session |-> NoSession])
                    @@ ("node:B" :> [v |-> 1, ts |-> 0, session |-> NoSession])
                    @@ ("node:C" :> [v |-> 1, ts |-> 7 * DAY, session |-> NoSession])]

\* The maintenance of scenario S1: compaction, then the orphan pruner.
S1_maintained ==
    LET c == compact_at(S1.max_tokens, (S1.max_tokens * 9) \div 10,
                        percentile_scores(eligible_at(S1.grace_seconds, S1.nodes, S1.edges,
                                                      S1.versions, S1.now)),
                        S1.nodes, S1.edges)
        p == prune_orphans(c.nodes, S1.edges, S1.versions, S1.now)
    IN  [archived |-> c.archived, nodes |-> p.nodes, edges |-> p.edges,
         deleted |-> p.deleted]

\* The running estimate after the first k nodes of the list were archived.
RunningEstimate(ns, es, archived, k) ==
    estimate_graph(ns, es)
        - SumSeq([i \in 1..k |-> estimate_node(NodeOf(ns, archived[i]))])

\* C33: when compaction runs, nodes are archived in ascending score order:
\* the archived list is a prefix of the eligible nodes sorted by ascending
\* score, ties in the order the scorer returned them, and archiving stops at
\* the first point where the running estimate is <= floor(0.9 x max_tokens);
\* in scenario S1 exactly A is archived and read returns B and C.
C33_AscendingScoreOrder ==
    /\ \A L \in Levels :
          LET ns == nodes[L]
              es == edges[L]
              scores == score_all(ns, es, versions[L], now)
              c == compact_if_needed(ns, es, versions[L], now)
              pos(id) == CHOOSE p \in 1..Len(scores) : scores[p].id = id
              before(x, y) == \/ scores[pos(x)].score < scores[pos(y)].score
                              \/ scores[pos(x)].score = scores[pos(y)].score /\ pos(x) < pos(y)
              eligible == {scores[p].id : p \in 1..Len(scores)}
              n == Len(c.archived)
          IN  IF estimate_graph(ns, es) <= max_tokens
              THEN c.archived = <<>>
              ELSE /\ Range(c.archived) \subseteq eligible
                   /\ \A i, j \in 1..n : i < j => before(c.archived[i], c.archived[j])
                   /\ \A id \in eligible \ Range(c.archived) :
                         \A i \in 1..n : before(c.archived[i], id)
                   /\ \A k \in 0..(n - 1) :
                         RunningEstimate(ns, es, c.archived, k) > (max_tokens * 9) \div 10
                   /\ \/ RunningEstimate(ns, es, c.archived, n) <= (max_tokens * 9) \div 10
                      \/ Range(c.archived) = eligible
    /\ S1_maintained.archived = <<"A">>
    /\ S1_maintained.deleted = <<>>
    /\ read_level(S1_maintained.nodes, S1_maintained.edges) =
           [nodes |-> <<S1.nodes[2], S1.nodes[3]>>, edges |-> <<>>]

\* C33 witness: a level is over budget with two eligible nodes of different
\* scores, and the compaction it is due archives the one of lower score
\* first, which is not the first the scorer returned.
C33_Witness ==
    \E L \in Levels :
        LET scores == score_all(nodes[L], edges[L], versions[L], now)
            c == compact_if_needed(nodes[L], edges[L], versions[L], now)
        IN  /\ c.archived # <<>>
            /\ \E j \in 2..Len(scores) : /\ scores[j].score < scores[1].score
                                         /\ c.archived[1] = scores[j].id

-----------------------------------------------------------------------------
(***************************************************************************)
(* The two phases of orphan pruning, checked under OrphanSpec              *)
(***************************************************************************)

\* Node id of level L has, when the tick of this step prunes, an edge of the
\* level to or from a node that is active then.  The nodes active when
\* _prune_orphans runs are the nodes active after the tick: compaction has
\* run before it, and pruning changes no node's archived flag.
ActiveNeighbourAtPrune(L, id) ==
    \E i \in 1..Len(edges[L]) :
        \/ edges[L][i]["from"] = id /\ edges[L][i]["to"] \in active_ids(nodes'[L])
        \/ edges[L][i]["to"] = id /\ edges[L][i]["from"] \in active_ids(nodes'[L])

\* Nothing of node id is left in level L after the step: the node, the edges
\* at it, and the version records of the node and of those edges are gone.
GoneWithItsEdges(L, id) ==
    /\ id \notin NodeIdsOf(nodes'[L])
    /\ \A i \in 1..Len(edges'[L]) : edges'[L][i]["from"] # id /\ edges'[L][i]["to"] # id
    /\ version_key_node(id) \notin DOMAIN versions'[L]
    /\ \A i \in 1..Len(edges[L]) :
          (edges[L][i]["from"] = id \/ edges[L][i]["to"] = id) =>
              version_key_edge(edges[L][i]["from"], edges[L][i]["to"], edges[L][i]["rel"])
                  \notin DOMAIN versions'[L]

\* C34: orphan pruning has two phases.  In a tick, a node that is archived when
\* the tick prunes, has no active neighbour and carries no orphaned_since is
\* marked with orphaned_since = now and stays stored; a node is deleted by a tick
\* only if it carried an orphaned_since before the tick, has no active neighbour
\* and now - orphaned_since > orphan_grace_days, and then it goes with its edges
\* and version records; an archived node with an active neighbour stays stored
\* and archived, without orphaned_since; active nodes are left as they were.
C34_TwoPhasePruning ==
    [][(last'.op = "tick" /\ Tick) =>
          \A L \in Levels : \A id \in NodeIdsOf(nodes[L]) :
              LET before == NodeOf(nodes[L], id)
                  stored == id \in NodeIdsOf(nodes'[L])
                  after == NodeOf(nodes'[L], id)
              IN  IF id \in active_ids(nodes'[L])
                  THEN after = before
                  ELSE IF ActiveNeighbourAtPrune(L, id)
                  THEN /\ stored /\ is_archived(after)
                       /\ "_orphaned_ts" \notin DOMAIN after
                       /\ id \notin Range(last'.deleted[L])
                  ELSE IF "_orphaned_ts" \notin DOMAIN before
                  THEN /\ stored /\ is_archived(after)
                       /\ after["_orphaned_ts"] = now
                       /\ id \notin Range(last'.deleted[L])
                  ELSE IF now - before["_orphaned_ts"] > orphan_grace_days * DAY
                  THEN GoneWithItsEdges(L, id) /\ id \in Range(last'.deleted[L])
                  ELSE /\ stored /\ is_archived(after)
                       /\ after["_orphaned_ts"] = before["_orphaned_ts"]
                       /\ id \notin Range(last'.deleted[L])]_vars

\* C34 witness (the end of scenario S2): a tick has deleted node "a", which an
\* earlier tick had marked, more than orphan_grace_days after the mark; the
\* active node "b" is still stored.
C34_Witness ==
    /\ last.op = "tick"
    /\ last.deleted["user"] = <<"a">>
    /\ "a" \notin NodeIdsOf(nodes["user"])
    /\ "b" \in active_ids(nodes["user"])
    /\ hist["user"]["a"] = Never

-----------------------------------------------------------------------------
(***************************************************************************)
(* TickSpec: the maintenance worker step by step, next to the clients.     *)
(* The store has loaded the user graph of OrphanLoaded from its file and   *)
(* holds one session; the worker runs _periodic_save position by position  *)
(* (pc["worker"]), the clients write nodes and edges through the public    *)
(* methods, each under the lock, and the clock advances.  The store is not *)
(* shut down and the process is not killed.                                *)
(***************************************************************************)
TickInit ==
    /\ now = 0
    /\ sessions = ("s1" :> [start_ts |-> 0])
    /\ issued = {"s1"}
    /\ disk = [L \in Levels |->
                  [json |-> IF L = "user"
                            THEN document(OrphanLoaded.nodes, OrphanLoaded.edges,
                                          OrphanLoaded.versions)
                            ELSE Absent,
                   tmp |-> Absent]]
    /\ nodes = [L \in Levels |-> load(disk[L]["json"]).nodes]
    /\ edges = [L \in Levels |-> load(disk[L]["json"]).edges]
    /\ versions = [L \in Levels |-> load(disk[L]["json"]).versions]
    /\ dirty = [L \in Levels |-> FALSE]
    /\ ops = 0
    /\ last = [op |-> "init"]
    /\ running = TRUE
    /\ lock = NoThread
    /\ pc = [t \in Threads |-> IF t = "worker" THEN [at |-> "check"] ELSE [at |-> "serving"]]
    /\ hist = EmptyDict
    /\ backups = EmptyDict

\* A client's call of a mutator, which runs under the lock from start to end.
ClientCall ==
    /\ pc["main"].at = "serving"
    /\ lock_free(lock)
    /\ ops < MaxCalls
    /\ \/ \E level \in Levels : PutNode(level, "a", SyncNodeInput, NoSession)
       \/ PutEdge("user", OrphanEdge.from, OrphanEdge.to, OrphanEdge.rel, NoSession)
    /\ UNCHANGED rest

TickNext ==
    \/ Advance /\ UNCHANGED rest
    \/ WorkerCheck
    \/ WorkerWake
    \/ WorkerMaintain
    \/ SaveOpen("worker")
    \/ SaveDump("worker")
    \/ SaveFsync("worker")
    \/ SaveReplace("worker")
    \/ SaveFail("worker")
    \/ WorkerFinish
    \/ ClientCall

TickSpec == TickInit /\ [][TickNext]_vars

-----------------------------------------------------------------------------
(***************************************************************************)
(* The maintenance tick as a critical section, checked under TickSpec      *)
(***************************************************************************)

\* The positions of the worker inside "with self.lock".
InTick == pc["worker"].at \in {"maintain", "cleanup"} \cup SavePositions

\* The level the worker is at, when it is at one.
TickLevel == LEVELS[pc["worker"].i]

\* From maintenance of a level the worker goes to the save of that level if the
\* level is dirty then, else on; from a save it stays in the save of the level
\* or goes on; on is the next level or, after the last level, the cleanup.
TickOrder ==
    /\ pc["worker"].at = "maintain" =>
          pc'["worker"] \in {[at |-> "open", i |-> pc["worker"].i,
                              v0 |-> disk[TickLevel]["json"]],
                             worker_next(pc["worker"].i)}
              /\ (pc'["worker"].at = "open") = dirty'[TickLevel]
    /\ pc["worker"].at \in SavePositions =>
          \/ pc'["worker"].at \in SavePositions /\ pc'["worker"].i = pc["worker"].i
          \/ pc'["worker"] = worker_next(pc["worker"].i)
    /\ pc'["worker"].at = "cleanup" /\ pc["worker"].at # "cleanup" =>
          pc["worker"].i = Len(LEVELS)
    /\ pc'["worker"].at = "maintain" /\ pc["worker"].at # "maintain" =>
          pc'["worker"].i = IF pc["worker"].at = "sleep" THEN 1 ELSE pc["worker"].i + 1

-----------------------------------------------------------------------------
(***************************************************************************)
(* RoundTripSpec: graphs written through the API, saved and loaded again.  *)
(* Clients put nodes and edges of the user level; the ids and relations    *)
(* they pass are arbitrary strings, among them "_meta" and strings that    *)
(* hold ":".  The maintenance tick archives, marks and saves; a restart    *)
(* loads the graph files.  disk[L]["json"] is the graph file of level L;   *)
(* every save of this specification succeeds or leaves the file as it was. *)
(***************************************************************************)
RoundTripNodeIds == {"a", "_meta"}

RoundTripEdges ==
    { [from |-> "a", to |-> "b", rel |-> "uses"],
      [from |-> "a", to |-> "b:c", rel |-> "d"],
      [from |-> "a", to |-> "b", rel |-> "c:d"] }

RoundTripInit ==
    /\ now = 0
    /\ sessions = EmptyDict
    /\ issued = {}
    /\ nodes = [L \in Levels |-> <<>>]
    /\ edges = [L \in Levels |-> <<>>]
    /\ versions = [L \in Levels |-> EmptyDict]
    /\ dirty = [L \in Levels |-> FALSE]
    /\ ops = 0
    /\ last = [op |-> "init"]
    /\ disk = [L \in Levels |-> [json |-> Absent, tmp |-> Absent]]
    /\ running = TRUE
    /\ lock = NoThread
    /\ pc = EmptyDict
    /\ hist = EmptyDict
    /\ backups = EmptyDict

\* A maintenance tick with its saves: the file of a level the tick has saved
\* holds the document of the level as the tick left it.
TickAndSave ==
    /\ Tick
    /\ disk' = [L \in Levels |->
                   IF ~dirty'[L] /\ (dirty[L] \/ nodes'[L] # nodes[L]
                                     \/ edges'[L] # edges[L] \/ versions'[L] # versions[L])
                   THEN [disk[L] EXCEPT !["json"] =
                            document(nodes'[L], edges'[L], versions'[L])]
                   ELSE disk[L]]
    /\ UNCHANGED <<running, lock, pc, hist, backups>>

\* The process ends and starts again: _load_all reads the graph files.
Restart ==
    /\ nodes' = [L \in Levels |-> load(disk[L]["json"]).nodes]
    /\ edges' = [L \in Levels |-> load(disk[L]["json"]).edges]
    /\ versions' = [L \in Levels |-> load(disk[L]["json"]).versions]
    /\ dirty' = [L \in Levels |-> FALSE]
    /\ sessions' = EmptyDict
    /\ last' = [op |-> "restart"]
    /\ UNCHANGED <<now, issued, ops, disk, running, lock, pc, hist, backups>>

RoundTripNext ==
    \/ Advance /\ UNCHANGED rest
    \/ \E id \in RoundTripNodeIds :
          ops < MaxCalls /\ PutNode("user", id, SyncNodeInput, NoSession) /\ UNCHANGED rest
    \/ \E e \in RoundTripEdges :
          ops < MaxCalls /\ PutEdge("user", e.from, e.to, e.rel, NoSession) /\ UNCHANGED rest
    \/ TickAndSave
    \/ Restart

RoundTripSpec == RoundTripInit /\ [][RoundTripNext]_vars

\* What save followed by load returns for the graph of level L.
reloaded(L) == load(document(nodes[L], edges[L], versions[L]))

\* C36 as the specification states it: for every graph reachable through the
\* API, a successful save followed by load returns the same nodes, the same
\* edges keyed by (from, to, rel) and the same version records.
C36_RoundTrip ==
    \A L \in Levels :
        /\ Range(reloaded(L).nodes) = Range(nodes[L])
        /\ Range(reloaded(L).edges) = Range(edges[L])
        /\ reloaded(L).versions = versions[L]

\* What does hold: the round trip is exact for a graph that has no node with the
\* id "_meta" and no two edges with one storage key.
C36_RoundTripOfPlainIds ==
    \A L \in Levels :
        (/\ "_meta" \notin NodeIdsOf(nodes[L])
         /\ \A i, j \in 1..Len(edges[L]) :
               edge_storage_key(edges[L][i]["from"], edges[L][i]["to"], edges[L][i]["rel"])
                   = edge_storage_key(edges[L][j]["from"], edges[L][j]["to"], edges[L][j]["rel"])
                   => i = j)
            => /\ reloaded(L).nodes = nodes[L]
               /\ reloaded(L).edges = edges[L]
               /\ reloaded(L).versions = versions[L]

-----------------------------------------------------------------------------
(***************************************************************************)
(* Memory and disk, checked under RoundTripSpec and TickSpec               *)
(***************************************************************************)

\* What a load of the graph file of level L returns is what the memory holds.
FileIsMemory(L) ==
    /\ Range(load(disk[L]["json"]).nodes) = Range(nodes[L])
    /\ Range(load(disk[L]["json"]).edges) = Range(edges[L])
    /\ load(disk[L]["json"]).versions = versions[L]

\* C37 as the specification states it: outside a critical section, a level
\* whose dirty flag is false has a file whose content equals the level's nodes,
\* edges and version records in memory.
C37_CleanMeansSaved ==
    \A L \in Levels : (lock = NoThread /\ ~dirty[L]) => FileIsMemory(L)

\* The second half of C37, which holds under RoundTripSpec and TickSpec: a step
\* that changes a level's nodes, edges or version records leaves its dirty
\* flag set, unless it is the restart or, under RoundTripSpec, the tick that
\* has saved the level.
C37_ChangeSetsDirty ==
    [][\A L \in Levels :
          (nodes'[L] # nodes[L] \/ edges'[L] # edges[L] \/ versions'[L] # versions[L]) =>
              \/ dirty'[L]
              \/ last'.op = "restart"
              \/ last'.op = "tick" /\ disk'[L]["json"] =
                                         document(nodes'[L], edges'[L], versions'[L])]_vars

\* The first half of C37 for the graphs of TickSpec, which hold no node "_meta"
\* and no two edges of one storage key, with the worker taken step by step and
\* saves that may fail.
C37_CleanMeansSavedPlainIds ==
    \A L \in Levels :
        (lock = NoThread /\ ~dirty[L]) => load(disk[L]["json"]) =
            [nodes |-> nodes[L], edges |-> edges[L], versions |-> versions[L]]

-----------------------------------------------------------------------------
(***************************************************************************)
(* VersionSpec: the version records next to the nodes and edges they       *)
(* belong to.  The store starts empty; clients put and delete node "a" and *)
(* the edges of RoundTripEdges on the user level, recall, and the          *)
(* maintenance tick runs.                                                  *)
(***************************************************************************)
VersionNext ==
    \/ Advance /\ UNCHANGED rest
    \/ ops < MaxOps /\ PutNode("user", "a", SyncNodeInput, NoSession) /\ UNCHANGED rest
    \/ \E e \in RoundTripEdges :
          ops < MaxOps /\ PutEdge("user", e.from, e.to, e.rel, NoSession) /\ UNCHANGED rest
    \/ \E e \in RoundTripEdges :
          ops < MaxOps /\ DeleteEdge("user", e.from, e.to, e.rel) /\ UNCHANGED rest
    \/ ops < MaxOps /\ DeleteNode("user", "a") /\ UNCHANGED rest
    \/ Tick /\ UNCHANGED rest

VersionSpec == Init /\ [][VersionNext]_vars

\* The version keys of the nodes and edges stored in level L.
EntityKeys(L) ==
    {version_key_node(id) : id \in NodeIdsOf(nodes[L])}
        \cup {version_key_edge(edges[L][i]["from"], edges[L][i]["to"], edges[L][i]["rel"]) :
                 i \in 1..Len(edges[L])}

\* C38 as the specification states it: the version records of a level are
\* exactly one node:<id> record per stored node and one
\* edge:<from>-><to>:<rel> record per stored edge; none survives its node or
\* edge, and none is missing.
C38_VersionsMatchEntities ==
    \A L \in Levels :
        /\ DOMAIN versions[L] = EntityKeys(L)
        /\ Cardinality(DOMAIN versions[L]) = Len(nodes[L]) + Len(edges[L])

\* What does hold: no record survives its node or edge, and a record is missing
\* only for an edge whose version key another edge shares or has shared.
C38_NoRecordSurvives ==
    \A L \in Levels : DOMAIN versions[L] \subseteq EntityKeys(L)

-----------------------------------------------------------------------------
(***************************************************************************)
(* The budget after a maintenance tick, checked under CompactSpec          *)
(***************************************************************************)

\* Level L holds, after the step, an active node whose version record is at
\* least the grace period old at the time of the step.
ActiveOutsideGrace(L) ==
    \E i \in 1..Len(nodes'[L]) :
        LET n == nodes'[L][i]
        IN  /\ ~is_archived(n)
            /\ version_key_node(n["id"]) \in DOMAIN versions'[L]
            /\ now - versions'[L][version_key_node(n["id"])].ts >= grace_period_days * DAY

\* C39: right after a maintenance tick has processed a level, the live token
\* estimate of the level is at most max_tokens, or no active node of the level
\* is outside the grace period.  An edge counts TOKENS_PER_EDGE in the estimate
\* whether or not an endpoint is active, so the estimate is never below
\* TOKENS_PER_EDGE times the number of edges.
C39_BudgetAfterTick ==
    [][(last'.op = "tick" /\ Tick) =>
          \A L \in Levels :
              /\ \/ estimate_graph(nodes'[L], edges'[L]) <= max_tokens
                 \/ ~ActiveOutsideGrace(L)
              /\ estimate_graph(nodes'[L], edges'[L]) >= TOKENS_PER_EDGE * Len(edges'[L])]_vars

\* C39 witness: a tick has archived every node that was outside the grace
\* period, and the level is still over max_tokens: one node within its grace
\* period is active, and an edge between two archived nodes is counted.
C39_Witness ==
    /\ last.op = "tick"
    /\ last.archived["user"] = <<"a", "b">>
    /\ estimate_graph(nodes["user"], edges["user"]) > max_tokens
    /\ active_ids(nodes["user"]) = {"c"}
    /\ \E i \in 1..Len(edges["user"]) :
          edges["user"][i]["from"] = "a" /\ edges["user"][i]["to"] = "b"

-----------------------------------------------------------------------------
(***************************************************************************)
(* LiveSpec: the worker and the clients of TickSpec with the backup that   *)
(* follows a save, and with fairness.  save() is one step here.            *)
(* _save_to_disk calls maybe_backup after a save that                      *)
(* succeeded; the copies of the rotation are made outside any try block,   *)
(* so an error of the file system there leaves _save_to_disk and the with  *)
(* block of _periodic_save as an exception.  The worker thread is          *)
(* scheduled fairly: a step of it that stays possible is taken.  Saves     *)
(* eventually succeed: for each level, a save that is tried again and      *)
(* again does not fail every time.                                         *)
(***************************************************************************)

\* save() of the level the worker is at, as one step: it writes the temporary
\* file, puts it in place and returns True; maybe_backup returns.
SaveSucceeds(L) ==
    /\ pc["worker"].at = "open"
    /\ LEVELS[pc["worker"].i] = L
    /\ disk' = [disk EXCEPT ![L] =
                   [json |-> document(nodes[L], edges[L], versions[L]), tmp |-> Absent]]
    /\ after_save("worker", pc["worker"].i, TRUE)
    /\ UNCHANGED <<now, sessions, issued, nodes, edges, versions, ops, last,
                   running, lock, hist, backups>>

\* save() puts the file in place and returns True; maybe_backup raises, and
\* the exception ends the worker thread.
BackupRaises ==
    /\ pc["worker"].at = "open"
    /\ LET L == LEVELS[pc["worker"].i]
       IN  disk' = [disk EXCEPT ![L] =
                       [json |-> document(nodes[L], edges[L], versions[L]), tmp |-> Absent]]
    /\ pc' = [pc EXCEPT !["worker"] = [at |-> "dead"]]
    /\ lock' = NoThread
    /\ UNCHANGED <<now, sessions, issued, nodes, edges, versions, dirty, ops, last,
                   running, hist, backups>>

\* The steps of TickSpec, with save() taken as one step that succeeds or
\* fails, and the backup that may raise.
LiveNext ==
    \/ Advance /\ UNCHANGED rest
    \/ WorkerCheck
    \/ WorkerWake
    \/ WorkerMaintain
    \/ \E L \in Levels : SaveSucceeds(L)
    \/ SaveFail("worker")
    \/ BackupRaises
    \/ WorkerFinish
    \/ ClientCall

\* The worker is at the maintenance of level LEVELS[i], where WorkerMaintain
\* is enabled and no other step moves the worker.
AtMaintain(i) == pc["worker"].at = "maintain" /\ pc["worker"].i = i

\* Weak fairness of every step of the worker, strong fairness of the save
\* that succeeds.  WorkerMaintain is enabled exactly where AtMaintain holds and
\* a step of it ends AtMaintain, so its weak fairness is written as
\* []<>~AtMaintain(i).
LiveFairness ==
    /\ WF_vars(WorkerCheck)
    /\ WF_vars(WorkerWake)
    /\ \A i \in 1..Len(LEVELS) : []<>~AtMaintain(i)
    /\ WF_vars(WorkerFinish)
    /\ \A L \in Levels : SF_vars(SaveSucceeds(L))

LiveSpec == TickInit /\ [][LiveNext]_vars /\ LiveFairness

\* C40 as the specification states it: with the store not shut down, the
\* worker scheduled fairly and saves that eventually succeed, a set dirty flag
\* is always eventually followed by a successful save that clears it.
C40_EventuallySaved ==
    \A L \in Levels : dirty[L] ~> ~dirty[L]

\* What does hold under LiveSpec: a set dirty flag is eventually cleared by a
\* save, or the worker thread has been ended by an exception.
C40_SavedOrWorkerDead ==
    \A L \in Levels : dirty[L] ~> (~dirty[L] \/ pc["worker"].at = "dead")

====
